---- MODULE Spec2Model ----
(***************************************************************************)
(* Model of the compatibility validation and repair engine of             *)
(* AudioMetaEditor (compatibility_checker.py) and of the part of the      *)
(* editor (audio_metadata_editor.py) that drives it.                      *)
(*                                                                         *)
(* Files are byte sequences (bytes are 0..255) with POSIX read / write    *)
(* permission bits.  The tag library (mutagen) and the external encoders  *)
(* are collaborators: the tag library is modelled by what it accepts of   *)
(* a byte sequence, the encoders by a nondeterministic outcome.           *)
(***************************************************************************)
EXTENDS Integers, Sequences, FiniteSets, TLC

\* ------------------------------------------------------------------------
\* Bounds of the model
\* ------------------------------------------------------------------------
\* number of payload bytes that follow the 44-byte header of a sample WAV
PayloadLen == 4
\* largest number of files of one compatibility check
MaxFiles == 2
\* longest short name of the name samples
MaxNameLen == 2

\* ------------------------------------------------------------------------
\* Bytes
\* ------------------------------------------------------------------------
ID3_MAGIC  == <<73, 68, 51>>
RIFF_MAGIC == <<82, 73, 70, 70>>
WAVE_MAGIC == <<87, 65, 86, 69>>
FLAC_MAGIC == <<102, 76, 97, 67>>
OGG_MAGIC  == <<79, 103, 103, 83>>
FMT_MAGIC  == <<102, 109, 116, 32>>
DATA_MAGIC == <<100, 97, 116, 97>>

Min(a, b) == IF a < b THEN a ELSE b
Max(a, b) == IF a > b THEN a ELSE b
Abs(a) == IF a < 0 THEN 0 - a ELSE a

\* data[lo:hi] of Python, 0-based, hi exclusive, clipped to the length
Slice(data, lo, hi) ==
    LET h == Min(hi, Len(data))
    IN  IF lo >= h THEN <<>> ELSE [i \in 1..(h - lo) |-> data[lo + i]]

\* data[lo:]
From(data, lo) == Slice(data, lo, Len(data))

\* f.read(n) at offset 0
ReadN(data, n) == Slice(data, 0, n)

StartsWith(data, prefix) ==
    /\ Len(data) >= Len(prefix)
    /\ \A i \in 1..Len(prefix) : data[i] = prefix[i]

\* n.to_bytes(k, byteorder='little')
LE16(n) == <<n % 256, (n \div 256) % 256>>
LE32(n) == <<n % 256, (n \div 256) % 256, (n \div 65536) % 256, (n \div 16777216) % 256>>

\* struct.unpack('<I', b)[0]
UnpackLE32(b) == b[1] + 256 * b[2] + 65536 * b[3] + 16777216 * b[4]

\* (b & 0xE0) == 0xE0
TopThreeBitsSet(b) == b >= 224

\* the frame-sync test of the checker and of the MP3 repair
IsFrameSync(b0, b1) == b0 = 255 /\ TopThreeBitsSet(b1)

EXT_MP3  == <<".", "m", "p", "3">>
EXT_FLAC == <<".", "f", "l", "a", "c">>
EXT_WAV  == <<".", "w", "a", "v">>
EXT_OGG  == <<".", "o", "g", "g">>
EXT_AAF  == <<".", "a", "a", "f">>

Zeros(n) == [i \in 1..n |-> 0]
Payload(n) == [i \in 1..n |-> i]

\* ------------------------------------------------------------------------
\* The tag library, as far as the engine depends on it
\* ------------------------------------------------------------------------
\* the four 7-bit synchsafe size bytes of an ID3v2 header (bytes 6..9)
SynchsafeSize(data) ==
    (data[7] % 128) * 2097152 + (data[8] % 128) * 16384 + (data[9] % 128) * 128 + (data[10] % 128)

\* offset of the first byte after a leading ID3v2 tag, as the library skips it
LibSkipID3(data) ==
    IF StartsWith(data, ID3_MAGIC) /\ Len(data) >= 10 THEN 10 + SynchsafeSize(data) ELSE 0

\* a well-formed MPEG audio frame header at 0-based offset pos: frame sync,
\* version and layer not reserved, bitrate index neither free nor bad,
\* sample rate index not reserved
LibValidFrameAt(data, pos) ==
    /\ pos + 4 <= Len(data)
    /\ IsFrameSync(data[pos + 1], data[pos + 2])
    /\ (data[pos + 2] \div 8) % 4 # 1
    /\ (data[pos + 2] \div 2) % 4 # 0
    /\ (data[pos + 3] \div 16) \notin {0, 15}
    /\ (data[pos + 3] \div 4) % 4 # 3

LibFirstFrame(data) ==
    LET cands == {p \in LibSkipID3(data)..(Len(data) - 4) : LibValidFrameAt(data, p)}
    IN  IF cands = {} THEN 0 - 1 ELSE CHOOSE p \in cands : \A q \in cands : p <= q

\* bitrate table of MPEG-1 Layer III, by the bitrate index of the frame header
LibBitrateTable == <<32000, 40000, 48000, 56000, 64000, 80000, 96000, 112000,
                     128000, 160000, 192000, 224000, 256000, 320000>>

\* MP3(path): HeaderNotFoundError when no frame can be synchronised; else
\* info.length (seconds) and info.bitrate.  Length and bitrate may come from
\* a VBR header of the stream, which libinfo stands for.
LibMP3(data, libinfo) ==
    LET f == LibFirstFrame(data)
    IN  IF f < 0 THEN [ok |-> FALSE, length |-> 0, bitrate |-> 0]
        ELSE [ok |-> TRUE,
              length |-> IF libinfo = "zero_length" THEN 0 ELSE 180,
              bitrate |-> IF libinfo = "huge_bitrate" THEN 1411000
                          ELSE LibBitrateTable[data[f + 3] \div 16]]

\* ID3(path): raises when the file does not start with an ID3v2 header
LibID3(data) ==
    [ok |-> StartsWith(data, ID3_MAGIC) /\ Len(data) >= 10, major |-> 2]

\* the metadata block types of a FLAC stream whose first block header is at
\* 0-based offset pos; -1 marks a truncated chain
RECURSIVE LibFlacBlocks(_, _)
LibFlacBlocks(data, pos) ==
    IF pos + 4 > Len(data) THEN <<0 - 1>>
    ELSE LET b == data[pos + 1]
             blen == data[pos + 2] * 65536 + data[pos + 3] * 256 + data[pos + 4]
         IN  IF b >= 128 THEN <<b % 128>>
             ELSE <<b % 128>> \o LibFlacBlocks(data, pos + 4 + blen)

\* FLAC(path): skips a leading ID3v2 tag, then wants the fLaC marker followed
\* by a complete chain of metadata blocks that starts with STREAMINFO
LibFLAC(data) ==
    LET off == LibSkipID3(data)
        blocks == LibFlacBlocks(data, off + 4)
        ok == /\ Slice(data, off, off + 4) = FLAC_MAGIC
              /\ blocks[1] = 0
              /\ \A i \in 1..Len(blocks) : blocks[i] >= 0
    IN  [ok |-> ok,
         has_tags |-> ok /\ \E i \in 1..Len(blocks) : blocks[i] = 4,
         sample_rate |-> 44100, bits_per_sample |-> 16, channels |-> 2]

\* WAVE(path): wants RIFF....WAVE and a complete 16-byte 'fmt ' chunk
LibWAVE(data) ==
    LET ok == /\ Slice(data, 0, 4) = RIFF_MAGIC
              /\ Slice(data, 8, 12) = WAVE_MAGIC
              /\ Slice(data, 12, 16) = FMT_MAGIC
              /\ Len(data) >= 36
    IN  IF ok THEN [ok |-> TRUE,
                    channels |-> data[23] + 256 * data[24],
                    sample_rate |-> UnpackLE32(Slice(data, 24, 28)),
                    bits_per_sample |-> data[35] + 256 * data[36],
                    has_tags |-> FALSE]
        ELSE [ok |-> FALSE, channels |-> 0, sample_rate |-> 0, bits_per_sample |-> 0,
              has_tags |-> FALSE]

\* ------------------------------------------------------------------------
\* The file system: a file has content and POSIX permission bits
\* ------------------------------------------------------------------------
NoFile == [exists |-> FALSE, data |-> <<>>, r |-> FALSE, w |-> FALSE]
NewFile(data) == [exists |-> TRUE, data |-> data, r |-> TRUE, w |-> TRUE]

\* open(p, 'rb') does not raise
CanOpenRead(fs, p) == fs[p].exists /\ fs[p].r
\* open(p, 'wb') does not raise (it creates a missing file)
CanOpenWrite(fs, p) == (~fs[p].exists) \/ fs[p].w

\* with open(p, 'wb') as f: f.write(data)
WriteFile(fs, p, data) ==
    [fs EXCEPT ![p] = IF @.exists THEN [@ EXCEPT !.data = data] ELSE NewFile(data)]

\* os.remove(p)
RemoveFile(fs, p) == [fs EXCEPT ![p] = NoFile]

\* shutil.copy2(src, dst) does not raise
CanCopy2(fs, src, dst) == CanOpenRead(fs, src) /\ CanOpenWrite(fs, dst)
\* shutil.copy2(src, dst): content, then the permission bits
Copy2(fs, src, dst) == [fs EXCEPT ![dst] = fs[src]]

\* ------------------------------------------------------------------------
\* check_file_integrity
\* ------------------------------------------------------------------------
WavSizeTolerance == 100
MaxDurationSeconds == 86400
MaxBitrate == 1000000

\* hashlib.md5 of the content, taken to be collision free; never the empty string
Md5(data) == <<256>> \o data

\* os.path.basename(file_path).startswith('._')
IsResourceName(name) == Len(name) >= 2 /\ name[1] = "." /\ name[2] = "_"

IntegrityKeys == {"status", "issues", "md5", "can_repair", "repair_method"}

\* the dict the check starts from; branch records which format branch ran
NewIntegrityResult ==
    [status |-> "OK", issues |-> <<>>, md5 |-> <<>>, can_repair |-> FALSE,
     repair_method |-> "None", keys |-> IntegrityKeys, branch |-> "none"]

AddIssue(res, status, issue) ==
    [res EXCEPT !.status = status, !.issues = Append(@, issue)]

MarkRepairable(res, method) ==
    [res EXCEPT !.can_repair = TRUE, !.repair_method = method]

\* a zero-byte file classified as a warning
ZeroByteResultAsWarning(res) == AddIssue(res, "Warning", "Zero-byte file detected")

\* file_size == 0: an error, and the check returns at once
ZeroByteResult(res) == AddIssue(res, "Error", "Zero-byte file detected")

CheckMp3(res0, data, libinfo) ==
    LET res == [res0 EXCEPT !.branch = "mp3"]
        header == ReadN(data, 4)
        isId3 == StartsWith(header, ID3_MAGIC)
        indexError == (~isId3) /\ header[1] = 255 /\ Len(header) < 2
        badHeader == (~isId3) /\ ~(header[1] = 255 /\ TopThreeBitsSet(header[2]))
        r1 == IF badHeader
              THEN MarkRepairable(AddIssue(res, "Error", "Invalid MP3 header"), "rebuild_mp3")
              ELSE res
        audio == LibMP3(data, libinfo)
        r2 == IF audio.length <= 0 \/ audio.length > MaxDurationSeconds
              THEN AddIssue(r1, "Warning", "Suspicious track duration") ELSE r1
        r3 == IF audio.bitrate <= 0 \/ audio.bitrate > MaxBitrate
              THEN AddIssue(r2, "Warning", "Suspicious bitrate value") ELSE r2
    IN  IF indexError
        THEN AddIssue(res, "Error", "MP3 parsing error: index out of range")
        ELSE IF ~audio.ok
        THEN MarkRepairable(AddIssue(r1, "Error", "MP3 header not found, file may be corrupted"),
                            "rebuild_mp3")
        ELSE r3

CheckFlac(res0, data) ==
    LET res == [res0 EXCEPT !.branch = "flac"]
        audio == LibFLAC(data)
    IN  IF ~audio.ok
        THEN AddIssue(res, "Error", "FLAC parsing error, file may be corrupted")
        ELSE IF ReadN(data, 4) # FLAC_MAGIC
        THEN MarkRepairable(AddIssue(res, "Error", "Invalid FLAC signature"), "rebuild_flac")
        ELSE res

CheckWav(res0, data) ==
    LET res == [res0 EXCEPT !.branch = "wav"]
        file_size == Len(data)
        riff == Slice(data, 0, 4)
        size == Slice(data, 4, 8)
        wave == Slice(data, 8, 12)
        r1 == IF riff # RIFF_MAGIC \/ wave # WAVE_MAGIC
              THEN MarkRepairable(AddIssue(res, "Error", "Invalid WAV header"), "rebuild_wav")
              ELSE res
    IN  IF Len(size) = 4
        THEN IF Abs(UnpackLE32(size) + 8 - file_size) > WavSizeTolerance
             THEN AddIssue(r1, "Warning", "WAV file size mismatch")
             ELSE r1
        ELSE AddIssue(r1, "Warning", "Unable to verify WAV file size")

CheckOgg(res0, data) ==
    LET res == [res0 EXCEPT !.branch = "ogg"]
    IN  IF ReadN(data, 4) # OGG_MAGIC
        THEN AddIssue(res, "Error", "Invalid OGG signature")
        ELSE res

\* check_file_integrity(file_path, file_ext) where f is the file at file_path
\* (NoFile if there is none) and name the stem of its basename
check_file_integrity(f, name, file_ext, libinfo) ==
    IF IsResourceName(name)
    THEN [status |-> "Error", issues |-> <<"macOS resource file">>, md5 |-> <<>>,
          can_repair |-> TRUE, repair_method |-> "delete_resource_file",
          keys |-> IntegrityKeys \ {"md5"}, branch |-> "none"]
    ELSE IF ~(f.exists /\ f.r)
    THEN AddIssue(NewIntegrityResult, "Error", "File access error: cannot open")
    ELSE LET res == [NewIntegrityResult EXCEPT !.md5 = Md5(f.data)]
         IN  IF Len(f.data) = 0
             THEN ZeroByteResult(res)
             ELSE CASE file_ext = EXT_MP3  -> CheckMp3(res, f.data, libinfo)
                    [] file_ext = EXT_FLAC -> CheckFlac(res, f.data)
                    [] file_ext = EXT_WAV  -> CheckWav(res, f.data)
                    [] file_ext = EXT_OGG  -> CheckOgg(res, f.data)
                    [] OTHER -> res

\* ------------------------------------------------------------------------
\* The repair strategies.  Each returns the file system it leaves and
\* whether it reports success.
\* ------------------------------------------------------------------------
WavHeaderLen == 44
Id3HeaderLen == 10

Outcome(fs, success, message) == [fs |-> fs, success |-> success, message |-> message]

\* position of the first frame sync at or after start_pos, -1 if there is none
FrameStart(data, start_pos) ==
    LET cands == {q \in start_pos..(Len(data) - 2) : IsFrameSync(data[q + 1], data[q + 2])}
    IN  IF cands = {} THEN 0 - 1 ELSE CHOOSE q \in cands : \A q2 \in cands : q <= q2

repair_mp3(fs, p) ==
    IF ~CanOpenRead(fs, p) THEN Outcome(fs, FALSE, "MP3 repair failed: cannot read")
    ELSE LET data == fs[p].data
             start_pos == IF StartsWith(data, ID3_MAGIC) /\ Len(data) > Id3HeaderLen
                          THEN Id3HeaderLen + SynchsafeSize(data) ELSE 0
             frame_start == FrameStart(data, start_pos)
             rebuilt == (IF start_pos > 0 THEN Slice(data, 0, start_pos) ELSE <<>>)
                        \o From(data, frame_start)
         IN  IF frame_start = 0 - 1
             THEN Outcome(fs, FALSE, "Could not find MP3 frame start")
             ELSE IF ~CanOpenWrite(fs, p)
             THEN Outcome(fs, FALSE, "MP3 repair failed: cannot write")
             ELSE Outcome(WriteFile(fs, p, rebuilt), TRUE,
                          "MP3 file structure repaired successfully")

\* the minimal canonical PCM header for a file of n bytes
CanonicalWavHeader(n) ==
    RIFF_MAGIC \o LE32(n - 8) \o WAVE_MAGIC \o FMT_MAGIC \o LE32(16) \o LE16(1) \o LE16(2)
    \o LE32(44100) \o LE32(44100 * 2 * 2) \o LE16(2 * 2) \o LE16(16)
    \o DATA_MAGIC \o LE32(Max(0, n - WavHeaderLen))

repair_wav(fs, p) ==
    IF ~CanOpenRead(fs, p) THEN Outcome(fs, FALSE, "WAV repair failed: cannot read")
    ELSE LET data == fs[p].data
             rebuilt == CanonicalWavHeader(Len(data))
                        \o (IF Len(data) > WavHeaderLen THEN From(data, WavHeaderLen) ELSE <<>>)
         IN  IF Len(data) < WavHeaderLen
             THEN Outcome(fs, FALSE, "WAV file too small to repair")
             ELSE IF ~CanOpenWrite(fs, p)
             THEN Outcome(fs, FALSE, "WAV repair failed: cannot write")
             ELSE Outcome(WriteFile(fs, p, rebuilt), TRUE,
                          "WAV file structure repaired successfully")

\* ------------------------------------------------------------------------
\* _repair_flac: three stages, each verified by an integrity check.
\* env is what the external tools do on this run:
\*   env.decode, env.ffmpeg \in {"missing", "fail", "ok"}, env.encode \in
\*   {"fail", "ok"}, env.output the content they produce.
\* A stage returns the file system it leaves, whether its integrity check
\* passed, the log of what it did, and the content of the target when its
\* repair tool was started (none if the stage did not get that far).
\* ------------------------------------------------------------------------
StageResult(fs, passed, log, start) ==
    [fs |-> fs, passed |-> passed, log |-> log, start |-> start]

NotStarted == <<>>
StartedOn(stage, fs, p) == <<[stage |-> stage, data |-> fs[p].data]>>

\* a stage that takes its output for good without checking it
FlacVerifyUnchecked(fs, p, name, file_ext, libinfo) == TRUE

\* integrity_result = self.check_file_integrity(file_path, file_ext); status OK
FlacVerify(fs, p, name, file_ext, libinfo) ==
    check_file_integrity(fs[p], name, file_ext, libinfo).status = "OK"

\* STAGE 1: flac --decode, flac --verify --best, replace, verify
FlacStage1(fs, p, name, file_ext, libinfo, env) ==
    IF env.decode = "missing"
    THEN StageResult(fs, FALSE, <<"stage1", "stage1_tool_missing">>, NotStarted)
    ELSE IF ~(env.decode = "ok" /\ CanOpenRead(fs, p))
    THEN StageResult(fs, FALSE, <<"stage1", "stage1_decode_failed">>, StartedOn(1, fs, p))
    ELSE IF env.encode # "ok"
    THEN StageResult(fs, FALSE, <<"stage1", "stage1_encode_failed">>, StartedOn(1, fs, p))
    ELSE IF ~CanOpenWrite(fs, p)
    THEN StageResult(fs, FALSE, <<"stage1", "stage1_raised">>, StartedOn(1, fs, p))
    ELSE IF FlacVerify(WriteFile(fs, p, env.output), p, name, file_ext, libinfo)
    THEN StageResult(WriteFile(fs, p, env.output), TRUE,
                     <<"stage1", "stage1_written", "stage1_check_ok">>, StartedOn(1, fs, p))
    ELSE StageResult(WriteFile(fs, p, env.output), FALSE,
                     <<"stage1", "stage1_written", "stage1_check_failed">>,
                     StartedOn(1, fs, p))

\* stage 2 on whatever stage 1 left in the target
FlacStage2WithoutRestore(fs, p, bak, name, file_ext, libinfo) ==
    LET audio == LibFLAC(fs[p].data)
    IN  IF ~(CanOpenRead(fs, p) /\ audio.ok /\ audio.has_tags /\ fs[p].w)
        THEN StageResult(fs, FALSE, <<"stage2", "stage2_raised">>, StartedOn(2, fs, p))
        ELSE IF FlacVerify(fs, p, name, file_ext, libinfo)
        THEN StageResult(fs, TRUE, <<"stage2", "stage2_written", "stage2_check_ok">>,
                         StartedOn(2, fs, p))
        ELSE StageResult(fs, FALSE, <<"stage2", "stage2_written", "stage2_check_failed">>,
                         StartedOn(2, fs, p))

\* STAGE 2: restore from backup, open with the tag library, save, verify
FlacStage2(fs, p, bak, name, file_ext, libinfo) ==
    IF fs[bak].exists /\ ~CanCopy2(fs, bak, p)
    THEN StageResult(fs, FALSE, <<"stage2", "stage2_raised">>, NotStarted)
    ELSE LET fs1 == IF fs[bak].exists THEN Copy2(fs, bak, p) ELSE fs
             restored == IF fs[bak].exists THEN <<"stage2", "stage2_restored">> ELSE <<"stage2">>
             audio == LibFLAC(fs1[p].data)
         IN  IF ~(CanOpenRead(fs1, p) /\ audio.ok)
             THEN StageResult(fs1, FALSE, restored \o <<"stage2_raised">>, StartedOn(2, fs1, p))
             ELSE IF ~audio.has_tags
             \* mutagen.flac.VCFLACDict(): the name mutagen is not bound in this module
             THEN StageResult(fs1, FALSE, restored \o <<"stage2_raised">>, StartedOn(2, fs1, p))
             ELSE IF ~fs1[p].w
             THEN StageResult(fs1, FALSE, restored \o <<"stage2_raised">>, StartedOn(2, fs1, p))
             ELSE IF FlacVerify(fs1, p, name, file_ext, libinfo)
             THEN StageResult(fs1, TRUE, restored \o <<"stage2_written", "stage2_check_ok">>,
                              StartedOn(2, fs1, p))
             ELSE StageResult(fs1, FALSE,
                              restored \o <<"stage2_written", "stage2_check_failed">>,
                              StartedOn(2, fs1, p))

\* STAGE 3: restore from backup, re-encode with ffmpeg if there is one, verify
FlacStage3(fs, p, bak, name, file_ext, libinfo, env) ==
    IF fs[bak].exists /\ ~CanCopy2(fs, bak, p)
    THEN StageResult(fs, FALSE, <<"stage3", "stage3_raised">>, NotStarted)
    ELSE LET fs1 == IF fs[bak].exists THEN Copy2(fs, bak, p) ELSE fs
             restored == IF fs[bak].exists THEN <<"stage3", "stage3_restored">> ELSE <<"stage3">>
         IN  IF env.ffmpeg = "missing"
             THEN StageResult(fs1, FALSE, restored \o <<"stage3_skipped">>, NotStarted)
             ELSE IF ~(env.ffmpeg = "ok" /\ CanOpenRead(fs1, p))
             THEN StageResult(fs1, FALSE, restored \o <<"stage3_tool_failed">>,
                              StartedOn(3, fs1, p))
             ELSE IF ~CanOpenWrite(fs1, p)
             THEN StageResult(fs1, FALSE, restored \o <<"stage3_raised">>, StartedOn(3, fs1, p))
             ELSE IF FlacVerify(WriteFile(fs1, p, env.output), p, name, file_ext, libinfo)
             THEN StageResult(WriteFile(fs1, p, env.output), TRUE,
                              restored \o <<"stage3_written", "stage3_check_ok">>,
                              StartedOn(3, fs1, p))
             ELSE StageResult(WriteFile(fs1, p, env.output), FALSE,
                              restored \o <<"stage3_written", "stage3_check_failed">>,
                              StartedOn(3, fs1, p))

\* "All repair attempts failed": copy the backup over the target if that is
\* possible (the except clause retries once and then gives up silently)
FlacFinalRestore(fs, p, bak) ==
    IF fs[bak].exists /\ CanCopy2(fs, bak, p) THEN Copy2(fs, bak, p) ELSE fs

FlacOutcome(fs, success, message, log, starts) ==
    [fs |-> fs, success |-> success, message |-> message, log |-> log, starts |-> starts]

\* after stage 3: success, or the final restore
FlacAfterStage3(p, bak, s1, s2, s3) ==
    IF s3.passed
    THEN FlacOutcome(RemoveFile(s3.fs, bak), TRUE,
                     "FLAC file repaired using ffmpeg", s1.log \o s2.log \o s3.log,
                     s1.start \o s2.start \o s3.start)
    ELSE FlacOutcome(FlacFinalRestore(s3.fs, p, bak), FALSE,
                     "All repair attempts failed to fix integrity issues",
                     s1.log \o s2.log \o s3.log \o <<"final_restore">>,
                     s1.start \o s2.start \o s3.start)

\* after stage 2: success, or stage 3
FlacAfterStage2(p, bak, name, file_ext, libinfo, env, s1, s2) ==
    IF s2.passed
    THEN FlacOutcome(RemoveFile(s2.fs, bak), TRUE,
                     "FLAC file header repaired successfully with mutagen",
                     s1.log \o s2.log, s1.start \o s2.start)
    ELSE FlacAfterStage3(p, bak, s1, s2,
                         FlacStage3(s2.fs, p, bak, name, file_ext, libinfo, env))

\* after stage 1: success (the finally clause removes the backup), or stage 2
FlacAfterStage1(p, bak, name, file_ext, libinfo, env, s1) ==
    IF s1.passed
    THEN FlacOutcome(RemoveFile(s1.fs, bak), TRUE,
                     "FLAC file repaired using native FLAC tools", s1.log, s1.start)
    ELSE FlacAfterStage2(p, bak, name, file_ext, libinfo, env, s1,
                         FlacStage2(s1.fs, p, bak, name, file_ext, libinfo))

repair_flac(fs, p, bak, name, file_ext, libinfo, env) ==
    IF IsResourceName(name)
    THEN FlacOutcome(fs, FALSE, "Cannot repair macOS resource file", <<>>, <<>>)
    ELSE IF ~CanCopy2(fs, p, bak)
    THEN FlacOutcome(fs, FALSE, "Could not create backup", <<>>, <<>>)
    ELSE FlacAfterStage1(p, bak, name, file_ext, libinfo, env,
                         FlacStage1(Copy2(fs, p, bak), p, name, file_ext, libinfo, env))

\* ------------------------------------------------------------------------
\* Names.  A name is a sequence of characters (one-character strings).
\* ------------------------------------------------------------------------
Digits == {"0", "1", "2", "3", "4", "5", "6", "7", "8", "9"}
LowerLetters == {"a", "b", "c", "d", "e", "f", "g", "h", "i", "j", "k", "l", "m",
                 "n", "o", "p", "q", "r", "s", "t", "u", "v", "w", "x", "y", "z"}
UpperLetters == {"A", "B", "C", "D", "E", "F", "G", "H", "I", "J", "K", "L", "M",
                 "N", "O", "P", "Q", "R", "S", "T", "U", "V", "W", "X", "Y", "Z"}

\* re.match(r'[0-9a-zA-Z\- ]', char)
IsAllowedChar(c) == c \in Digits \cup LowerLetters \cup UpperLetters \cup {"-", " "}

\* characters outside ASCII, written by name: e_acute is U+00E9, n_tilde U+00F1,
\* sharp_s U+00DF, cyrillic_ya U+044F, superscript_2 U+00B2, COMBINING_ACUTE U+0301,
\* COMBINING_TILDE U+0303
AccentedLetters == {"e_acute", "n_tilde"}
OtherLetters == {"sharp_s", "cyrillic_ya"}

\* unicodedata.category(char), first letter
UnicodeCategory(c) ==
    IF c \in LowerLetters \cup UpperLetters \cup AccentedLetters \cup OtherLetters THEN "L"
    ELSE IF c = "COMBINING_ACUTE" \/ c = "COMBINING_TILDE" THEN "M"
    ELSE IF c \in Digits \/ c = "superscript_2" THEN "N"
    ELSE IF c = " " THEN "Z"
    ELSE "P"

\* unicodedata.normalize('NFKD', char)
NFKD(c) ==
    CASE c = "e_acute" -> <<"e", "COMBINING_ACUTE">>
      [] c = "n_tilde" -> <<"n", "COMBINING_TILDE">>
      [] c = "superscript_2" -> <<"2">>
      [] OTHER -> <<c>>

\* unicodedata.normalize('NFKD', name): the decompositions of its characters
\* in order (computed by halves, names may be over a hundred characters long)
RECURSIVE NormalizeNFKD(_)
NormalizeNFKD(name) ==
    IF name = <<>> THEN <<>>
    ELSE IF Len(name) = 1 THEN NFKD(name[1])
    ELSE NormalizeNFKD(SubSeq(name, 1, Len(name) \div 2))
         \o NormalizeNFKD(SubSeq(name, Len(name) \div 2 + 1, Len(name)))

\* str.lower() on an extension
LowerChar(c) ==
    CASE c = "M" -> "m" [] c = "P" -> "p" [] c = "W" -> "w" [] c = "A" -> "a"
      [] c = "V" -> "v" [] c = "F" -> "f" [] c = "L" -> "l" [] c = "C" -> "c"
      [] c = "O" -> "o" [] c = "G" -> "g" [] OTHER -> c
Lower(s) == [i \in 1..Len(s) |-> LowerChar(s[i])]

\* the elements of s at the positions lo..hi that are in S, in order
RECURSIVE Between(_, _, _, _)
Between(s, S, lo, hi) ==
    IF lo > hi THEN <<>>
    ELSE IF lo = hi THEN (IF lo \in S THEN <<s[lo]>> ELSE <<>>)
    ELSE Between(s, S, lo, (lo + hi) \div 2) \o Between(s, S, (lo + hi) \div 2 + 1, hi)
\* the elements of s at the positions in S, in order
AtPositions(s, S) == Between(s, S, 1, Len(s))

\* the distinct elements of a sequence in order of first occurrence
Distinct(s) ==
    AtPositions(s, {i \in 1..Len(s) : \A j \in 1..(i - 1) : s[j] # s[i]})

\* re.sub(ch + '+', ch, s): one ch is left of every run of ch
CollapseRuns(s, ch) ==
    AtPositions(s, {i \in 1..Len(s) : ~(s[i] = ch /\ i < Len(s) /\ s[i + 1] = ch)})

\* s.strip(chars)
LStrip(s, chars) ==
    LET kept == {i \in 1..Len(s) : s[i] \notin chars}
    IN  IF kept = {} THEN <<>>
        ELSE SubSeq(s, CHOOSE i \in kept : \A j \in kept : i <= j, Len(s))
RStrip(s, chars) ==
    LET kept == {i \in 1..Len(s) : s[i] \notin chars}
    IN  IF kept = {} THEN <<>>
        ELSE SubSeq(s, 1, CHOOSE i \in kept : \A j \in kept : i >= j)
Strip(s, chars) == RStrip(LStrip(s, chars), chars)

Ellipsis == <<".", ".", ".">>

\* ------------------------------------------------------------------------
\* check_path_issues and check_directory_path
\* ------------------------------------------------------------------------
MAX_PATH_LENGTH == 250
MAX_FILENAME_LENGTH == 100
MAX_DIRNAME_LENGTH == 100

\* a finding: fixed text, an optional prefix put by the validator, and the
\* characters quoted by the text, if any
Msg(text) == [prefix |-> "", text |-> text, detail |-> <<>>]
MsgChars(text, chars) == [prefix |-> "", text |-> text, detail |-> chars]
Prefixed(prefix, m) == [m EXCEPT !.prefix = prefix]
PrefixAll(prefix, ms) == [i \in 1..Len(ms) |-> Prefixed(prefix, ms[i])]

\* the characters of a name the character loop collects as accented / invalid
AccentedChars(name) ==
    Distinct(SelectSeq(name, LAMBDA c : (~IsAllowedChar(c)) /\ UnicodeCategory(c) = "L"))
InvalidChars(name) ==
    Distinct(SelectSeq(name, LAMBDA c : (~IsAllowedChar(c)) /\ UnicodeCategory(c) # "L"))

\* the safe name before truncation: decompose, drop combining marks and
\* disallowed characters, fall back if blank, collapse runs, strip
SafeName(name, fallback) ==
    LET kept == SelectSeq(NormalizeNFKD(name),
                          LAMBDA c : UnicodeCategory(c) # "M" /\ IsAllowedChar(c))
        nonblank == IF Strip(kept, {" "}) = <<>> THEN fallback ELSE kept
    IN  Strip(CollapseRuns(CollapseRuns(nonblank, " "), "-"), {"-", " "})

PathResult(issues, warnings, recommendations, can_rename, suggested) ==
    [issues |-> issues, warnings |-> warnings, recommendations |-> recommendations,
     can_rename |-> can_rename, has_suggested |-> can_rename, suggested |-> suggested]

\* check_path_issues(file_path): file_name and file_ext are the stem and the
\* extension of the basename, path_len is len(file_path)
check_path_issues(file_name, file_ext, path_len, perform_path_validation) ==
    LET tooLongPath == path_len > MAX_PATH_LENGTH
        tooLongName == Len(file_name) + Len(file_ext) > MAX_FILENAME_LENGTH
        accented == IF perform_path_validation THEN AccentedChars(file_name) ELSE <<>>
        invalid == IF perform_path_validation THEN InvalidChars(file_name) ELSE <<>>
        issues ==
            (IF tooLongPath THEN <<Msg("File path exceeds 250 characters")>> ELSE <<>>)
            \o (IF tooLongName THEN <<Msg("Filename exceeds 100 characters")>> ELSE <<>>)
            \o (IF invalid # <<>>
                THEN <<MsgChars("Filename contains special characters", invalid)>> ELSE <<>>)
        warnings ==
            IF accented # <<>>
            THEN <<MsgChars("Filename contains accented characters", accented)>> ELSE <<>>
        recommendations ==
            (IF tooLongPath
             THEN <<Msg("Shorten the file path for better compatibility across systems")>>
             ELSE <<>>)
            \o (IF tooLongName THEN <<Msg("Consider shortening the filename")>> ELSE <<>>)
            \o (IF accented # <<>>
                THEN <<Msg("Accented characters may cause issues on some systems")>> ELSE <<>>)
            \o (IF invalid # <<>>
                THEN <<Msg("Use only numbers, letters, spaces, and dashes for best compatibility")>>
                ELSE <<>>)
        can_rename == tooLongName \/ accented # <<>> \/ invalid # <<>>
        safe == SafeName(file_name, <<"a", "u", "d", "i", "o", "f", "i", "l", "e">>)
        budget == MAX_FILENAME_LENGTH - Len(file_ext)
        truncated == IF Len(safe) > budget
                     THEN Slice(safe, 0, Max(0, budget - 3)) \o Ellipsis ELSE safe
    IN  PathResult(issues, warnings, recommendations, can_rename,
                   IF can_rename THEN truncated \o file_ext ELSE <<>>)

\* check_directory_path(dir_path): dir_name is the basename of dir_path
check_directory_path(dir_name, perform_path_validation) ==
    IF (~perform_path_validation) \/ dir_name = <<>>
    THEN PathResult(<<>>, <<>>, <<>>, FALSE, <<>>)
    ELSE LET tooLong == Len(dir_name) > MAX_DIRNAME_LENGTH
             accented == AccentedChars(dir_name)
             invalid == InvalidChars(dir_name)
             issues ==
                 (IF tooLong THEN <<Msg("Directory name exceeds 100 characters")>> ELSE <<>>)
                 \o (IF invalid # <<>>
                     THEN <<MsgChars("Directory name contains special characters", invalid)>>
                     ELSE <<>>)
             warnings ==
                 IF accented # <<>>
                 THEN <<MsgChars("Directory name contains accented characters", accented)>>
                 ELSE <<>>
             recommendations ==
                 (IF tooLong
                  THEN <<Msg("Consider shortening directory names for better compatibility")>>
                  ELSE <<>>)
                 \o (IF accented # <<>>
                     THEN <<Msg("Accented characters may cause issues on some systems")>>
                     ELSE <<>>)
                 \o (IF invalid # <<>>
                     THEN <<Msg("Use only numbers, letters, spaces, and dashes for best compatibility")>>
                     ELSE <<>>)
             can_rename == tooLong \/ accented # <<>> \/ invalid # <<>>
             safe == SafeName(dir_name, <<"f", "o", "l", "d", "e", "r">>)
             truncated == IF Len(safe) > MAX_DIRNAME_LENGTH
                          THEN Slice(safe, 0, MAX_DIRNAME_LENGTH - 3) \o Ellipsis ELSE safe
         IN  PathResult(issues, warnings, recommendations, can_rename,
                        IF can_rename THEN truncated ELSE <<>>)

\* ------------------------------------------------------------------------
\* validate_strict_profile
\* ------------------------------------------------------------------------
MaxFieldLength == 250
MinCommonBitrate == 128000
MaxCommonBitrate == 320000

\* a tag text: its length and whether it is made of whitespace only
Text(len, blank) == [len |-> len, blank |-> blank]
\* not s.strip()
IsBlank(t) == t.len = 0 \/ t.blank
\* truth value of a string
IsTruthy(t) == t.len > 0

\* which of the words the recommendation is keyed on an integrity issue holds
IssueKeyword(text) ==
    CASE text \in {"MP3 header not found, file may be corrupted",
                   "FLAC parsing error, file may be corrupted"} -> "corrupted"
      [] text \in {"Invalid MP3 header", "Invalid WAV header"} -> "header"
      [] OTHER -> "none"

IntegrityRecommendation(text) ==
    CASE IssueKeyword(text) = "corrupted" ->
           <<Msg("This file appears to be corrupted and may need to be re-encoded")>>
      [] IssueKeyword(text) = "truncated" ->
           <<Msg("This file appears to be truncated and may be missing data")>>
      [] IssueKeyword(text) = "header" ->
           <<Msg("This file has header issues that may cause playback problems")>>
      [] OTHER -> <<>>

RECURSIVE IntegrityRecommendations(_)
IntegrityRecommendations(issues) ==
    IF issues = <<>> THEN <<>>
    ELSE IntegrityRecommendation(Head(issues)) \o IntegrityRecommendations(Tail(issues))

\* the integrity status of a report when the integrity check is disabled
DefaultIntegrityStatus ==
    [status |-> "OK", issues |-> <<>>, md5 |-> <<>>, can_repair |-> FALSE,
     repair_method |-> "None", keys |-> {"status", "issues", "md5"}, branch |-> "none"]

Findings(issues, warnings, recommendations, info_keys) ==
    [issues |-> issues, warnings |-> warnings, recommendations |-> recommendations,
     info_keys |-> info_keys]

ValidateMp3(acc, f, libinfo) ==
    LET audio == LibMP3(f.data, libinfo)
        id3 == LibID3(f.data)
        uncommon == audio.bitrate < MinCommonBitrate \/ audio.bitrate > MaxCommonBitrate
    IN  IF ~(f.exists /\ f.r /\ audio.ok)
        THEN [acc EXCEPT !.issues = Append(@, Msg("Error analyzing MP3 file"))]
        ELSE Findings(
               acc.issues \o (IF id3.ok THEN <<>>
                              ELSE <<Msg("No ID3 tags found or corrupted tags")>>),
               acc.warnings
                 \o (IF uncommon THEN <<Msg("Uncommon bitrate")>> ELSE <<>>)
                 \o (IF id3.ok /\ id3.major < 2
                     THEN <<Msg("Using ID3v1 tags which have limited support")>> ELSE <<>>),
               acc.recommendations
                 \o (IF uncommon
                     THEN <<Msg("Standard compatible bitrates: 128kbps, 192kbps, 256kbps, 320kbps")>>
                     ELSE <<>>)
                 \o (IF id3.ok
                     THEN (IF id3.major < 2
                           THEN <<Msg("Upgrade to ID3v2.3 or ID3v2.4 for better compatibility")>>
                           ELSE <<>>)
                     ELSE <<Msg("Add proper ID3v2.3 tags for maximum compatibility")>>),
               acc.info_keys \cup {"bitrate", "sample_rate", "length"}
                 \cup (IF id3.ok THEN {"id3_version"} ELSE {}))

ValidateFlac(acc, f) ==
    LET audio == LibFLAC(f.data)
        hi_rate == audio.sample_rate > 48000
        hi_bits == audio.bits_per_sample > 24
        multi == audio.channels > 2
    IN  IF ~(f.exists /\ f.r /\ audio.ok)
        THEN [acc EXCEPT !.issues = Append(@, Msg("Error analyzing FLAC file"))]
        ELSE Findings(
               acc.issues,
               acc.warnings
                 \o (IF hi_rate THEN <<Msg("High sample rate")>> ELSE <<>>)
                 \o (IF hi_bits THEN <<Msg("High bit depth")>> ELSE <<>>)
                 \o (IF multi THEN <<Msg("Multichannel audio")>> ELSE <<>>),
               acc.recommendations
                 \o (IF hi_rate
                     THEN <<Msg("Sample rates above 48kHz may not be supported by all players")>>
                     ELSE <<>>)
                 \o (IF hi_bits
                     THEN <<Msg("Bit depths above 24-bit may not be supported by all players")>>
                     ELSE <<>>)
                 \o (IF multi
                     THEN <<Msg("More than 2 channels may not be supported by all players")>>
                     ELSE <<>>),
               acc.info_keys \cup {"sample_rate", "bits_per_sample", "channels"})

MissingTagIssues == {Msg("Missing title tag"), Msg("Missing artist tag")}

\* the loop that moves the missing-tag issues of a WAV file to the warnings
DowngradedWarnings(issues) ==
    LET moved == SelectSeq(issues, LAMBDA m : m \in MissingTagIssues)
    IN  [i \in 1..Len(moved) |->
            IF moved[i] = Msg("Missing title tag")
            THEN Msg("Missing title tag (normal for WAV files)")
            ELSE Msg("Missing artist tag (normal for WAV files)")]

ValidateWav(acc, f, metadata) ==
    LET audio == LibWAVE(f.data)
        id3 == LibID3(f.data)
        no_meta == ~(IsTruthy(metadata.title) \/ IsTruthy(metadata.artist)
                     \/ IsTruthy(metadata.album))
        odd_rate == audio.sample_rate \notin {44100, 48000}
        hi_bits == audio.bits_per_sample > 16
        multi == audio.channels > 2
        id3_only == (~audio.has_tags) /\ id3.ok
    IN  IF ~(f.exists /\ f.r /\ audio.ok)
        THEN [acc EXCEPT
                !.issues = Append(@, Msg("Error analyzing WAV file")),
                !.recommendations =
                    Append(@, Msg("The WAV file may be corrupted or using a non-standard format"))]
        ELSE Findings(
               SelectSeq(acc.issues, LAMBDA m : m \notin MissingTagIssues),
               acc.warnings \o DowngradedWarnings(acc.issues)
                 \o (IF no_meta
                     THEN <<Msg("WAV file has no metadata (this is normal for WAV files)")>>
                     ELSE <<>>)
                 \o (IF odd_rate THEN <<Msg("Uncommon sample rate")>> ELSE <<>>)
                 \o (IF hi_bits THEN <<Msg("High bit depth")>> ELSE <<>>)
                 \o (IF multi THEN <<Msg("Multichannel audio")>> ELSE <<>>)
                 \o (IF id3_only THEN <<Msg("WAV file using non-standard ID3 tags")>> ELSE <<>>),
               acc.recommendations
                 \o (IF no_meta
                     THEN <<Msg("WAV files typically have limited or no metadata support in most players")>>
                     ELSE <<Msg("Some players may not display the metadata in this WAV file")>>)
                 \o (IF odd_rate
                     THEN <<Msg("Standard sample rates of 44.1kHz or 48kHz have the best compatibility")>>
                     ELSE <<>>)
                 \o (IF hi_bits
                     THEN <<Msg("Bit depths above 16-bit may not be supported by all players")>>
                     ELSE <<>>)
                 \o (IF multi
                     THEN <<Msg("More than 2 channels may not be supported by all players")>>
                     ELSE <<>>)
                 \o (IF id3_only
                     THEN <<Msg("Some players may not recognize ID3 tags in WAV files")>>
                     ELSE <<>>),
               acc.info_keys \cup {"sample_rate", "bits_per_sample", "channels", "metadata_type"}
                 \cup (IF audio.has_tags THEN {"has_info_chunks"} ELSE {})
                 \cup (IF id3.ok THEN {"has_id3"} ELSE {}))

ReportKeys == {"issues", "warnings", "recommendations", "format_info", "integrity", "path"}

\* what a call of validate_strict_profile that raised leaves to its caller
RaisedReport(exc) ==
    [raised |-> TRUE, exc |-> exc, keys |-> {}, issues |-> <<>>, warnings |-> <<>>,
     recommendations |-> <<>>, info_keys |-> {}, md5_checksum |-> <<>>,
     integrity |-> DefaultIntegrityStatus,
     path |-> [can_rename |-> FALSE, suggested_filename |-> <<>>,
               dir_can_rename |-> FALSE, suggested_dirname |-> <<>>]]

\* validate_strict_profile(file_path, metadata).  A file is described by
\*   file.name, file.ext   stem and extension of the basename
\*   file.dir_name         basename of the parent directory
\*   file.path_len         len(file_path)
\*   file.f                the file on disk
\*   file.libinfo          what the tag library reports of its stream
\* the findings common to all formats: resource file, path, parent
\* directory, missing and oversize tags, integrity issues
CommonFindings(file, metadata, integrity_status, path, dir) ==
    Findings(
        (IF IsResourceName(file.name) THEN <<Msg("macOS resource file detected")>> ELSE <<>>)
          \o path.issues
          \o PrefixAll("Parent directory issue: ", dir.issues)
          \o (IF IsBlank(metadata.title) THEN <<Msg("Missing title tag")>> ELSE <<>>)
          \o (IF IsBlank(metadata.artist) THEN <<Msg("Missing artist tag")>> ELSE <<>>)
          \o (IF metadata.title.len > MaxFieldLength
              THEN <<Msg("Title tag exceeds 250 characters")>> ELSE <<>>)
          \o (IF metadata.artist.len > MaxFieldLength
              THEN <<Msg("Artist tag exceeds 250 characters")>> ELSE <<>>)
          \o (IF metadata.album.len > MaxFieldLength
              THEN <<Msg("Album tag exceeds 250 characters")>> ELSE <<>>)
          \o (IF integrity_status.status # "OK"
              THEN [i \in 1..Len(integrity_status.issues) |->
                      Prefixed("Integrity issue: ", Msg(integrity_status.issues[i]))]
              ELSE <<>>),
        path.warnings \o PrefixAll("Parent directory warning: ", dir.warnings),
        (IF IsResourceName(file.name)
         THEN <<Msg("These hidden resource files are not actual audio files and should be deleted")>>
         ELSE <<>>)
          \o path.recommendations
          \o PrefixAll("Parent directory: ", dir.recommendations)
          \o (IF IsBlank(metadata.title)
              THEN <<Msg("Add a title to improve compatibility")>> ELSE <<>>)
          \o (IF IsBlank(metadata.artist)
              THEN <<Msg("Add an artist name to improve compatibility")>> ELSE <<>>)
          \o (IF metadata.title.len > MaxFieldLength
              THEN <<Msg("Shorten title to improve compatibility with older players")>>
              ELSE <<>>)
          \o (IF metadata.artist.len > MaxFieldLength
              THEN <<Msg("Shorten artist to improve compatibility with older players")>>
              ELSE <<>>)
          \o (IF metadata.album.len > MaxFieldLength
              THEN <<Msg("Shorten album to improve compatibility with older players")>>
              ELSE <<>>)
          \o (IF integrity_status.status # "OK"
              THEN IntegrityRecommendations(integrity_status.issues) ELSE <<>>),
        \* integrity_status["md5"] is read only when the status is not OK
        IF integrity_status.status # "OK" /\ integrity_status.md5 # <<>>
        THEN {"md5_checksum"} ELSE {})

\* the format-specific checks, on top of the common findings
FormatFindings(file, metadata, common) ==
    CASE Lower(file.ext) = EXT_MP3  -> ValidateMp3(common, file.f, file.libinfo)
      [] Lower(file.ext) = EXT_FLAC -> ValidateFlac(common, file.f)
      [] Lower(file.ext) = EXT_WAV  -> ValidateWav(common, file.f, metadata)
      [] OTHER -> common

\* the dict validate_strict_profile returns
ReturnedReport(perform_path_validation, integrity_status, path, dir, final) ==
    [raised |-> FALSE, exc |-> "", keys |-> ReportKeys,
     issues |-> final.issues, warnings |-> final.warnings,
     recommendations |-> final.recommendations,
     info_keys |-> final.info_keys,
     md5_checksum |-> IF "md5_checksum" \in final.info_keys
                      THEN integrity_status.md5 ELSE <<>>,
     integrity |-> integrity_status,
     path |-> [can_rename |-> path.can_rename
                              \/ (perform_path_validation /\ dir.can_rename
                                  /\ dir.suggested # <<>>),
               suggested_filename |-> path.suggested,
               dir_can_rename |-> perform_path_validation /\ dir.can_rename,
               suggested_dirname |-> IF perform_path_validation
                                     THEN dir.suggested ELSE <<>>]]

\* validate_strict_profile once the path checks and the integrity check ran
ValidateChecked(file, metadata, perform_path_validation, integrity_status, path, dir) ==
    IF integrity_status.status # "OK" /\ "md5" \notin integrity_status.keys
    THEN RaisedReport("KeyError: 'md5'")
    ELSE ReturnedReport(perform_path_validation, integrity_status, path, dir,
                        FormatFindings(file, metadata,
                                       CommonFindings(file, metadata, integrity_status,
                                                      path, dir)))

validate_strict_profile(file, metadata, perform_integrity_check, perform_path_validation) ==
    ValidateChecked(file, metadata, perform_path_validation,
                    IF perform_integrity_check
                    THEN check_file_integrity(file.f, file.name, Lower(file.ext), file.libinfo)
                    ELSE DefaultIntegrityStatus,
                    check_path_issues(file.name, file.ext, file.path_len,
                                      perform_path_validation),
                    check_directory_path(file.dir_name, perform_path_validation))

\* ------------------------------------------------------------------------
\* repair_file_integrity
\* ------------------------------------------------------------------------
RepairMethods == {"delete_resource_file", "rebuild_mp3", "rebuild_flac", "rebuild_wav"}

\* what a repair call did besides its result: whether it opened the target,
\* whether it wrote the backup, the strategy it ran, and what the stages of
\* that strategy logged and started on
RepairTrace(read_target, backup_written, strategy, log, starts) ==
    [read_target |-> read_target, backup_written |-> backup_written,
     strategy |-> strategy, log |-> log, starts |-> starts]

RepairOutcome(fs, success, message, trace) ==
    [fs |-> fs, success |-> success, message |-> message, trace |-> trace]

\* integrity_result.get("can_repair", False)
GetCanRepair(integrity_result) ==
    IF "can_repair" \in integrity_result.keys THEN integrity_result.can_repair ELSE FALSE

\* integrity_result.get("repair_method")
GetRepairMethod(integrity_result) ==
    IF "repair_method" \in integrity_result.keys THEN integrity_result.repair_method ELSE "None"

\* a restore that opens the target for writing and writes nothing
RestoreOriginalTruncating(fs, p, bak) ==
    IF CanOpenRead(fs, bak) /\ CanOpenWrite(fs, p)
    THEN RemoveFile(WriteFile(fs, p, <<>>), bak)
    ELSE fs

\* "If repair failed, restore from backup": copy the backup over the target
\* and remove the backup; an error of either open leaves both as they are
RestoreOriginal(fs, p, bak) ==
    IF CanOpenRead(fs, bak) /\ CanOpenWrite(fs, p)
    THEN RemoveFile(WriteFile(fs, p, fs[bak].data), bak)
    ELSE fs

\* "Successful repair, delete backup"
DiscardBackup(fs, bak) == IF fs[bak].exists THEN RemoveFile(fs, bak) ELSE fs

\* the strategy selected by repair_method, run on the file system fs
RunStrategy(fs, p, bak, name, file_ext, repair_method, libinfo, env) ==
    CASE repair_method = "delete_resource_file" ->
           [fs |-> RemoveFile(fs, p), success |-> TRUE,
            message |-> "Removed macOS resource file successfully", log |-> <<>>,
            starts |-> <<>>]
      [] repair_method = "rebuild_mp3" -> repair_mp3(fs, p) @@ [log |-> <<>>, starts |-> <<>>]
      [] repair_method = "rebuild_flac" ->
           repair_flac(fs, p, bak, name, file_ext, libinfo, env)
      [] repair_method = "rebuild_wav" -> repair_wav(fs, p) @@ [log |-> <<>>, starts |-> <<>>]
      [] OTHER -> [fs |-> fs, success |-> FALSE, message |-> "Unknown repair method",
                   log |-> <<>>, starts |-> <<>>]

\* the guard of repair_file_integrity with the default of a missing key inverted
RepairIsRefusedDefaultTrue(integrity_result) ==
    ~(IF "can_repair" \in integrity_result.keys THEN integrity_result.can_repair ELSE TRUE)

\* if not integrity_result.get("can_repair", False): return failure
RepairIsRefused(integrity_result) == ~GetCanRepair(integrity_result)

\* what follows the strategy: delete the backup after a success, restore the
\* original from it after a failure
FinishRepair(p, bak, repair_method, res) ==
    RepairOutcome(IF res.success THEN DiscardBackup(res.fs, bak)
                  ELSE RestoreOriginal(res.fs, p, bak),
                  res.success, res.message,
                  RepairTrace(TRUE, TRUE,
                              IF repair_method \in RepairMethods THEN repair_method ELSE "none",
                              res.log, res.starts))

repair_file_integrity(fs, p, bak, name, file_ext, integrity_result, libinfo, env) ==
    IF RepairIsRefused(integrity_result)
    THEN RepairOutcome(fs, FALSE, "This issue cannot be automatically repaired",
                       RepairTrace(FALSE, FALSE, "none", <<>>, <<>>))
    ELSE IF ~CanOpenRead(fs, p)
    THEN RepairOutcome(fs, FALSE, "Failed to create backup",
                       RepairTrace(FALSE, FALSE, "none", <<>>, <<>>))
    ELSE IF ~CanOpenWrite(fs, bak)
    THEN RepairOutcome(fs, FALSE, "Failed to create backup",
                       RepairTrace(TRUE, FALSE, "none", <<>>, <<>>))
    ELSE FinishRepair(p, bak, GetRepairMethod(integrity_result),
                      RunStrategy(WriteFile(fs, bak, fs[p].data), p, bak, name, file_ext,
                                  GetRepairMethod(integrity_result), libinfo, env))

\* ------------------------------------------------------------------------
\* The files the model is run on
\* ------------------------------------------------------------------------
\* data with the bytes from 0-based offset off on replaced by bytes
WithBytes(data, off, bytes) ==
    [i \in 1..Len(data) |->
        IF i > off /\ i <= off + Len(bytes) THEN bytes[i - off] ELSE data[i]]

WavLen == WavHeaderLen + PayloadLen
WavGood == CanonicalWavHeader(WavLen) \o Payload(PayloadLen)
WavBadRiff == WithBytes(WavGood, 0, Zeros(4))
WavBadWave == WithBytes(WavGood, 8, Zeros(4))
WavBadRiffBadSize == WithBytes(WavGood, 0, Zeros(4) \o LE32(WavLen + 1000))
WavSizeAtTolerance == WithBytes(WavGood, 4, LE32(WavLen - 8 + WavSizeTolerance))
WavSizeOverTolerance == WithBytes(WavGood, 4, LE32(WavLen - 8 + WavSizeTolerance + 1))
WavShort == RIFF_MAGIC \o <<1, 2>>
WavMarkersOnly == RIFF_MAGIC \o LE32(4) \o WAVE_MAGIC
WavHeaderOnlyBad == WithBytes(CanonicalWavHeader(WavHeaderLen), 0, Zeros(4))
WavTooSmallBad == SubSeq(WavHeaderOnlyBad, 1, WavHeaderLen - 1)

Mp3Frame == <<255, 251, 144, 0>>
Mp3Frame64k == <<255, 251, 80, 0>>
Mp3FalseSyncBytes == <<255, 224, 0, 0>>
Id3Header(size) == ID3_MAGIC \o <<3, 0, 0>> \o <<0, 0, 0, size>>
Mp3Good == Mp3Frame \o Payload(2)
Mp3LowBitrate == Mp3Frame64k \o Payload(2)
Mp3Tagged == Id3Header(2) \o <<9, 9>> \o Mp3Frame \o Payload(2)
Mp3LeadingGarbage == <<0, 0>> \o Mp3Frame \o Payload(2)
Mp3FalseSync == <<0>> \o Mp3FalseSyncBytes \o Payload(2)
Mp3NoSync == <<0, 1, 2, 3>>
Mp3TagOverrun == Id3Header(100) \o Mp3Frame
Mp3TagOnly == ID3_MAGIC \o <<3, 0, 0>>
Mp3OneByte == <<255>>
Mp3TaggedGarbage == Id3Header(0) \o <<0>> \o Mp3Frame

FlacGood == FLAC_MAGIC \o <<0, 0, 0, 0>> \o <<132, 0, 0, 0>>
FlacNoTags == FLAC_MAGIC \o <<128, 0, 0, 0>>
FlacTruncated == FLAC_MAGIC \o <<0, 0, 0, 0>>
FlacId3 == Id3Header(0) \o FlacGood
FlacId3NoTags == Id3Header(0) \o FlacNoTags
FlacGarbage == <<0, 1, 2, 3, 4>>

OggGood == OGG_MAGIC \o <<1>>
OggBad == <<0, 1, 2, 3>>

WavSamples == {<<>>, WavGood, WavBadRiff, WavBadWave, WavBadRiffBadSize, WavSizeAtTolerance,
               WavSizeOverTolerance, WavShort, WavMarkersOnly, WavHeaderOnlyBad,
               WavTooSmallBad}
Mp3Samples == {<<>>, Mp3Good, Mp3LowBitrate, Mp3Tagged, Mp3LeadingGarbage, Mp3FalseSync,
               Mp3NoSync, Mp3TagOverrun, Mp3TagOnly, Mp3OneByte, Mp3TaggedGarbage}
FlacSamples == {<<>>, FlacGood, FlacNoTags, FlacTruncated, FlacId3, FlacId3NoTags,
                FlacGarbage}

Sample(ext, data) == [ext |-> ext, data |-> data]
SampleFiles ==
    {Sample(EXT_WAV, d) : d \in WavSamples}
    \cup {Sample(EXT_MP3, d) : d \in Mp3Samples}
    \cup {Sample(EXT_FLAC, d) : d \in FlacSamples}
    \cup {Sample(EXT_OGG, d) : d \in {<<>>, OggGood, OggBad}}
    \cup {Sample(EXT_AAF, d) : d \in {<<>>, OggBad}}
    \cup {Sample(<<".", "W", "A", "V">>, d) : d \in {WavGood, WavBadRiffBadSize}}

PlainName == <<"t", "r", "k">>
ResourceName == <<".", "_", "t", "k">>
AccentedName == <<"e_acute", "t", "#">>
SampleNames == <<PlainName, ResourceName, AccentedName>>
SampleDirNames == <<<<"m", "u", "s", "i", "c">>, <<"m", "u", "s", "i", "c">>,
                    <<"m", "y", "_", "n_tilde">>>>

\* permission bits a file of the model may have: read-write, read-only, none
Perms == {<<TRUE, TRUE>>, <<TRUE, FALSE>>, <<FALSE, FALSE>>}
FileWith(data, perm) == [exists |-> TRUE, data |-> data, r |-> perm[1], w |-> perm[2]]

\* what the tag library may report of the stream of an MP3
LibInfos == {"normal", "zero_length", "huge_bitrate"}

\* the content the external encoders may produce
ToolOutputs == {FlacNoTags, FlacTruncated}
\* the encoder runs only after a decoder that succeeded
FlacEnvs ==
    {env \in [decode : {"missing", "fail", "ok"}, encode : {"fail", "ok"},
              ffmpeg : {"missing", "fail", "ok"}, output : ToolOutputs] :
        env.decode # "ok" => env.encode = "fail"}
NoTools ==
    [decode |-> "missing", encode |-> "fail", ffmpeg |-> "missing", output |-> FlacTruncated]

\* metadata records handed to the validator
EmptyText == Text(0, TRUE)
BlankText == Text(1, TRUE)
SomeText == Text(4, FALSE)
LongText == Text(MaxFieldLength + 1, FALSE)
Metadata(title, artist, album) == [title |-> title, artist |-> artist, album |-> album]
SampleMetadata ==
    {Metadata(EmptyText, EmptyText, EmptyText), Metadata(BlankText, SomeText, EmptyText),
     Metadata(SomeText, SomeText, SomeText), Metadata(SomeText, EmptyText, SomeText),
     Metadata(LongText, SomeText, Text(MaxFieldLength, FALSE))}

\* ------------------------------------------------------------------------
\* One directory of the disk: rename_file and rename_directory
\* ------------------------------------------------------------------------
\* an entry of the directory is a file, with its content and the texts of
\* its tag block, or a subdirectory; the directory maps the names that exist
NoTags == [title |-> <<>>, artist |-> <<>>, album |-> <<>>]
FileEntry(f, tags) == [kind |-> "file", f |-> f, tags |-> tags]
DirEntry == [kind |-> "dir", f |-> NoFile, tags |-> NoTags]
HasTags(tags) == tags.title # <<>> \/ tags.artist # <<>> \/ tags.album # <<>>

\* os.path.exists(os.path.join(dir_path, name)); joining "" names the
\* directory itself
PathExists(tree, name) == name = <<>> \/ name \in DOMAIN tree

\* os.rename(src, dst) inside the directory
OsRename(tree, src, dst) ==
    IF src \notin DOMAIN tree THEN [raised |-> TRUE, tree |-> tree]
    ELSE IF dst \notin DOMAIN tree
    THEN [raised |-> FALSE,
          tree |-> [n \in (DOMAIN tree \ {src}) \cup {dst} |->
                      IF n = dst THEN tree[src] ELSE tree[n]]]
    ELSE IF src = dst THEN [raised |-> FALSE, tree |-> tree]
    ELSE IF tree[src].kind = "file" /\ tree[dst].kind = "file"
    THEN [raised |-> FALSE,
          tree |-> [n \in DOMAIN tree \ {src} |-> IF n = dst THEN tree[src] ELSE tree[n]]]
    ELSE [raised |-> TRUE, tree |-> tree]

\* ID3.save(): the tag is written as ID3v2.4, in front of the content when
\* the file had no tag
LibSaveID3(data) ==
    IF LibID3(data).ok THEN WithBytes(data, 3, <<4>>)
    ELSE ID3_MAGIC \o <<4, 0, 0>> \o <<0, 0, 0, 0>> \o data

\* new_audio.tags = metadata.tags; new_audio.save() on the renamed file: the
\* tag block is written again when the file has one with a text in it
TransferTags(e) ==
    IF e.kind = "file" /\ e.f.r /\ HasTags(e.tags)
       /\ (LibID3(e.f.data).ok \/ LibFLAC(e.f.data).has_tags)
    THEN IF ~e.f.w THEN [entry |-> e, warning |-> TRUE]
         ELSE [entry |-> [e EXCEPT !.f.data = IF LibID3(@).ok THEN LibSaveID3(@) ELSE @],
               warning |-> FALSE]
    ELSE [entry |-> e, warning |-> FALSE]

\* the dict both renames return; new_path is <<>> for None
RenameResult(tree, success, message, new_path) ==
    [tree |-> tree, success |-> success, message |-> message, new_path |-> new_path]

\* rename_directory(dir_path, new_dirname)
rename_directory(tree, dir_name, new_dirname) ==
    LET moved == OsRename(tree, dir_name, new_dirname)
    IN  IF PathExists(tree, new_dirname)
        THEN RenameResult(tree, FALSE, "Cannot rename directory: already exists", <<>>)
        ELSE IF moved.raised
        THEN RenameResult(tree, FALSE, "Failed to rename directory", <<>>)
        ELSE RenameResult(moved.tree, TRUE, "Directory renamed successfully", <<new_dirname>>)

\* rename_file with the destination check left out
rename_file_unchecked(tree, file_name, new_filename) ==
    LET moved == OsRename(tree, file_name, new_filename)
    IN  IF moved.raised
        THEN RenameResult(tree, FALSE, "Failed to rename file", <<>>)
        ELSE LET saved == TransferTags(moved.tree[new_filename])
             IN  RenameResult([moved.tree EXCEPT ![new_filename] = saved.entry], TRUE,
                              IF saved.warning
                              THEN "File renamed successfully (Warning: metadata transfer had issues)"
                              ELSE "File renamed successfully",
                              <<new_filename>>)

\* rename_file(file_path, new_filename)
rename_file(tree, file_name, new_filename) ==
    LET moved == OsRename(tree, file_name, new_filename)
    IN  IF PathExists(tree, new_filename)
        THEN RenameResult(tree, FALSE, "Cannot rename: already exists", <<>>)
        ELSE IF moved.raised
        THEN RenameResult(tree, FALSE, "Failed to rename file", <<>>)
        ELSE LET saved == TransferTags(moved.tree[new_filename])
             IN  RenameResult([moved.tree EXCEPT ![new_filename] = saved.entry], TRUE,
                              IF saved.warning
                              THEN "File renamed successfully (Warning: metadata transfer had issues)"
                              ELSE "File renamed successfully",
                              <<new_filename>>)

\* ------------------------------------------------------------------------
\* The tag store: read_metadata and write_metadata
\* ------------------------------------------------------------------------
\* os.path.splitext(name): the extension starts at the last dot that has a
\* character other than a dot before it
Splitext(name) ==
    LET dots == {i \in 1..Len(name) : name[i] = "."}
        last == IF dots = {} THEN 0 ELSE CHOOSE i \in dots : \A j \in dots : j <= i
    IN  IF last > 0 /\ \E j \in 1..(last - 1) : name[j] # "."
        THEN [stem |-> SubSeq(name, 1, last - 1), ext |-> SubSeq(name, last, Len(name))]
        ELSE [stem |-> name, ext |-> <<>>]

\* FLAC.save(): a stream without a comment block gets one at the end of its
\* block chain, which ends the file in every stream of the model
LibSaveFLAC(data) ==
    IF LibFLAC(data).has_tags THEN data
    ELSE WithBytes(data, Len(data) - 4, <<data[Len(data) - 3] % 128>>) \o <<132, 0, 0, 0>>

\* the keys of the dict read_metadata returns from its try block; the record
\* with the key 'error' is built by the outer except only
MetadataKeys == {"title", "artist", "album", "date", "genre", "comment", "format", "length"}
MetadataRecord(tags, parsed) ==
    [title |-> tags.title, artist |-> tags.artist, album |-> tags.album,
     keys |-> MetadataKeys, parsed |-> parsed]

\* whether the library can open the container of the entry
ContainerParses(e, file_ext) ==
    /\ e.kind = "file"
    /\ e.f.r
    /\ CASE file_ext = EXT_FLAC -> LibFLAC(e.f.data).ok
         [] file_ext = EXT_MP3  -> LibID3(e.f.data).ok
         [] file_ext = EXT_WAV  -> LibWAVE(e.f.data).ok
         [] OTHER -> FALSE

\* read_metadata(file_path): each format reads inside its own try, whose
\* except prints and leaves the empty texts of the initial dict
read_metadata(e, file_ext) ==
    CASE file_ext = EXT_FLAC ->
           IF ContainerParses(e, file_ext)
           THEN MetadataRecord(IF LibFLAC(e.f.data).has_tags THEN e.tags ELSE NoTags, TRUE)
           ELSE MetadataRecord(NoTags, FALSE)
      [] file_ext = EXT_MP3 ->
           IF ContainerParses(e, file_ext) THEN MetadataRecord(e.tags, TRUE)
           ELSE MetadataRecord(NoTags, FALSE)
      [] file_ext = EXT_WAV ->
           IF ContainerParses(e, file_ext)
           THEN MetadataRecord(IF LibID3(e.f.data).ok THEN e.tags ELSE NoTags, TRUE)
           ELSE MetadataRecord(NoTags, FALSE)
      [] OTHER -> MetadataRecord(NoTags, FALSE)

\* the metadata dict as the validator looks at it
TextOf(s) == Text(Len(s), \A i \in 1..Len(s) : s[i] = " ")
AsMetadata(md) == Metadata(TextOf(md.title), TextOf(md.artist), TextOf(md.album))

WriteResult(tree, success) == [tree |-> tree, success |-> success]
TagsOf(md) == [title |-> md.title, artist |-> md.artist, album |-> md.album]
\* the WAV branch writes the texts that are not empty over the tag it loaded
WavTags(e, md) ==
    [k \in {"title", "artist", "album"} |->
        IF md[k] # <<>> THEN md[k] ELSE IF LibID3(e.f.data).ok THEN e.tags[k] ELSE <<>>]

\* write_metadata(file_path, metadata) on the file at name
write_metadata(tree, name, md) ==
    CASE Lower(Splitext(name).ext) = EXT_FLAC ->
           IF tree[name].f.r /\ tree[name].f.w /\ LibFLAC(tree[name].f.data).ok
           THEN WriteResult([tree EXCEPT ![name].f.data = LibSaveFLAC(@),
                                         ![name].tags = TagsOf(md)], TRUE)
           ELSE WriteResult(tree, FALSE)
      [] Lower(Splitext(name).ext) = EXT_MP3 ->
           IF tree[name].f.r /\ tree[name].f.w
           THEN WriteResult([tree EXCEPT ![name].f.data = LibSaveID3(@),
                                         ![name].tags = TagsOf(md)], TRUE)
           ELSE WriteResult(tree, FALSE)
      [] Lower(Splitext(name).ext) = EXT_WAV ->
           IF tree[name].f.r /\ tree[name].f.w
           THEN WriteResult([tree EXCEPT ![name].f.data = LibSaveID3(@),
                                         ![name].tags = WavTags(tree[name], md)], TRUE)
           ELSE WriteResult(tree, TRUE)
      [] Lower(Splitext(name).ext) = EXT_AAF -> WriteResult(tree, FALSE)
      [] OTHER -> WriteResult(tree, TRUE)

\* the two paths of the file a check or a repair works on
TARGET == "file_path"
BACKUP == "file_path.bak"
Paths == {TARGET, BACKUP}
Disk(target, bak) == [p \in Paths |-> IF p = TARGET THEN target ELSE bak]

\* ------------------------------------------------------------------------
\* Auto-fix: apply_all_fixes and auto_fix_compatibility.process_files
\* ------------------------------------------------------------------------
TrimLength == 250
UnknownArtist ==
    <<"U", "n", "k", "n", "o", "w", "n", " ", "A", "r", "t", "i", "s", "t">>

\* 'text' in results['issues']
HasIssue(results, text) ==
    \E i \in 1..Len(results.issues) : results.issues[i] = Msg(text)
\* any(text in issue for issue in results['issues'])
MentionsIssue(results, text) ==
    \E i \in 1..Len(results.issues) : results.issues[i].text = text

\* metadata[field][:251]
TrimFieldKeepingOneMore(s) == SubSeq(s, 1, Min(Len(s), TrimLength + 1))
\* metadata[field][:250]
TrimField(s) == SubSeq(s, 1, Min(Len(s), TrimLength))

\* os.path.splitext(os.path.basename(full_path))[0]
TitleFromStem(full_path) == Splitext(full_path).stem

\* the metadata fixes of one file: title, artist, then the trims
UpdatesMade(results) ==
    \/ HasIssue(results, "Missing title tag")
    \/ HasIssue(results, "Missing artist tag")
    \/ MentionsIssue(results, "Title tag exceeds 250 characters")
    \/ MentionsIssue(results, "Artist tag exceeds 250 characters")
    \/ MentionsIssue(results, "Album tag exceeds 250 characters")
FixedTitle(md, results, full_path) ==
    IF HasIssue(results, "Missing title tag") /\ full_path # <<>>
    THEN TitleFromStem(full_path) ELSE md.title
FixedArtist(md, results) ==
    IF HasIssue(results, "Missing artist tag") THEN UnknownArtist ELSE md.artist
FixedMetadata(md, results, full_path) ==
    [md EXCEPT
       !.title = IF MentionsIssue(results, "Title tag exceeds 250 characters")
                 THEN TrimField(FixedTitle(md, results, full_path))
                 ELSE FixedTitle(md, results, full_path),
       !.artist = IF MentionsIssue(results, "Artist tag exceeds 250 characters")
                  THEN TrimField(FixedArtist(md, results))
                  ELSE FixedArtist(md, results),
       !.album = IF MentionsIssue(results, "Album tag exceeds 250 characters")
                 THEN TrimField(@) ELSE @]

\* the file and its backup path as the repair engine sees them, and the
\* directory after the repair
BakName(name) == name \o <<".", "b", "a", "k">>
TreeDisk(tree, name) ==
    Disk(tree[name].f,
         IF BakName(name) \in DOMAIN tree /\ tree[BakName(name)].kind = "file"
         THEN tree[BakName(name)].f ELSE NoFile)
TreeAfterRepair(tree, name, fs) ==
    [n \in ((DOMAIN tree \cup {BakName(name)})
              \ ((IF fs[TARGET].exists THEN {} ELSE {name})
                   \cup (IF fs[BACKUP].exists THEN {} ELSE {BakName(name)}))) |->
        IF n = name THEN [tree[name] EXCEPT !.f = fs[TARGET]]
        ELSE IF n = BakName(name) THEN FileEntry(fs[BACKUP], NoTags)
        ELSE tree[n]]

\* what process_files leaves for one report: the directory, the path it ended
\* on, how the file was counted, and the metadata it wrote (<<>> if none)
FixOutcome(tree, full_path, status, renamed, repaired, written) ==
    [tree |-> tree, full_path |-> full_path, status |-> status, renamed |-> renamed,
     repaired |-> repaired, written |-> written]

FixWritten(w, full_path, md, renamed, repaired) ==
    FixOutcome(w.tree, full_path, IF w.success THEN "fixed" ELSE "write_failed",
               renamed, repaired, <<md>>)

\* lines 1412-1466: the metadata fixes and write_metadata
FixTags(tree, full_path, results, md, renamed, repaired) ==
    IF UpdatesMade(results)
    THEN FixWritten(write_metadata(tree, full_path, FixedMetadata(md, results, full_path)),
                    full_path, FixedMetadata(md, results, full_path), renamed, repaired)
    ELSE FixOutcome(tree, full_path, IF repaired THEN "fixed" ELSE "no_changes",
                    renamed, repaired, <<>>)

FixRepaired(out, tree, full_path, results, md, renamed) ==
    FixTags(TreeAfterRepair(tree, full_path, out.fs), full_path, results, md, renamed,
            out.success)

\* lines 1384-1410: the integrity repair, when the check is switched on; the
\* external encoders are not installed
FixIntegrity(tree, full_path, results, md, renamed, integrity_on) ==
    IF integrity_on /\ results.integrity.status # "OK" /\ GetCanRepair(results.integrity)
    THEN FixRepaired(repair_file_integrity(TreeDisk(tree, full_path), TARGET, BACKUP,
                                           Splitext(full_path).stem,
                                           Lower(Splitext(full_path).ext),
                                           results.integrity, "normal", NoTools),
                     tree, full_path, results, md, renamed)
    ELSE FixTags(tree, full_path, results, md, renamed, FALSE)

FixRenamed(r, full_path, results, md, integrity_on) ==
    FixIntegrity(r.tree, IF r.success THEN r.new_path[1] ELSE full_path, results, md,
                 r.success, integrity_on)

\* lines 1297-1331: the rename to the suggested filename.  The FLAC cleaning
\* (1349-1382) waits for format_info.has_* keys, which no report has; the
\* directory of the file is collected and renamed by the batch (CollectDir,
\* AfterDir).
FixRename(tree, full_path, results, md, integrity_on) ==
    IF results.path.can_rename /\ results.path.suggested_filename # <<>>
    THEN FixRenamed(rename_file(tree, full_path, results.path.suggested_filename),
                    full_path, results, md, integrity_on)
    ELSE FixIntegrity(tree, full_path, results, md, FALSE, integrity_on)

\* the body of the loop of process_files for the report of full_path
process_file(tree, full_path, results, integrity_on) ==
    IF ~PathExists(tree, full_path)
    THEN FixOutcome(tree, full_path, "skipped_not_found", FALSE, FALSE, <<>>)
    ELSE IF "error" \in read_metadata(tree[full_path], Lower(Splitext(full_path).ext)).keys
    THEN FixOutcome(tree, full_path, "skipped_read_error", FALSE, FALSE, <<>>)
    ELSE IF HasIssue(results, "macOS resource file detected")
    THEN IF tree[full_path].kind = "file"
         THEN FixOutcome([n \in DOMAIN tree \ {full_path} |-> tree[n]], full_path,
                         "deleted", FALSE, FALSE, <<>>)
         ELSE FixOutcome(tree, full_path, "delete_failed", FALSE, FALSE, <<>>)
    ELSE FixRename(tree, full_path, results,
                   read_metadata(tree[full_path], Lower(Splitext(full_path).ext)),
                   integrity_on)

\* ------------------------------------------------------------------------
\* State
\* ------------------------------------------------------------------------
VARIABLES
    fs,                       \* path -> file, for the target and its backup path
    file_name, file_ext,      \* stem and extension of the target's basename
    dir_name,                 \* basename of the target's directory
    libinfo,                  \* what the tag library reports of the target's stream
    perform_integrity_check,  \* the two toggles of the checker
    perform_path_validation,
    integ,                    \* <<result>> of the last check_file_integrity, <<>> if stale
    report,                   \* <<call>> of the last validate_strict_profile
    repair,                   \* <<call>> of the last repair_file_integrity
    files, checked_files_state, call, last_report_data, listbox,
    current_dir,              \* the directory the editor has loaded
    tree,                     \* name -> entry, for the names that exist in one directory;
                              \* path -> entry where a batch runs over several directories
    rename,                   \* <<call>> of the last rename_file or rename_directory
    autofix                   \* <<call>> of the last auto-fix; the batches that run

fileVars == <<fs, file_name, file_ext, dir_name, libinfo, perform_integrity_check,
              perform_path_validation, integ, report, repair>>
batchVars == <<files, checked_files_state, call, last_report_data, listbox, current_dir>>
diskVars == <<tree, rename, autofix>>
vars == <<fileVars, batchVars, diskVars>>

\* len(file_path) of the target: "/" + directory + "/" + basename
TargetPathLen == 1 + Len(dir_name) + 1 + Len(file_name) + Len(file_ext)

TargetFile ==
    [name |-> file_name, ext |-> file_ext, dir_name |-> dir_name,
     path_len |-> TargetPathLen, f |-> fs[TARGET], libinfo |-> libinfo]

\* an integrity result a caller may hand to the repair: any combination of
\* can_repair (present or not) and repair_method
CraftedResult(can_repair, method) ==
    [status |-> "Error", issues |-> <<"reported by the caller">>, md5 |-> <<>>,
     can_repair |-> (can_repair = "true"), repair_method |-> method,
     keys |-> IF can_repair = "absent" THEN IntegrityKeys \ {"can_repair"} ELSE IntegrityKeys,
     branch |-> "none"]
CraftedResults ==
    {CraftedResult("true", m) : m \in RepairMethods \cup {"unknown_method", "None"}}
    \cup {CraftedResult(c, "rebuild_wav") : c \in {"false", "absent"}}

NoDisk ==
    /\ tree = <<>>
    /\ rename = <<>>
    /\ autofix = <<>>

NoBatch ==
    /\ files = <<>>
    /\ checked_files_state = <<>>
    /\ call = <<>>
    /\ last_report_data = <<>>
    /\ listbox = <<>>
    /\ current_dir = <<>>

\* the target and what is at its backup path before any call: the target
\* read-write, read-only, unreadable or missing; nothing, a writable file or a
\* read-only file at the backup path
StrayBackup(perm) == FileWith(<<7>>, perm)
SampleDisks(data) ==
    {Disk(FileWith(data, perm), NoFile) : perm \in Perms}
    \cup {Disk(FileWith(data, <<TRUE, TRUE>>), StrayBackup(perm)) :
            perm \in {<<TRUE, TRUE>>, <<TRUE, FALSE>>, <<FALSE, TRUE>>}}
    \cup {Disk(NoFile, NoFile), Disk(NoFile, StrayBackup(<<TRUE, TRUE>>))}

\* the checker after construction (integrity check off, path validation on),
\* pointed at one file of the samples
InitFile(with_stray_backups, names) ==
    /\ \E s \in SampleFiles :
         /\ file_ext = s.ext
         /\ fs \in {d \in SampleDisks(s.data) : with_stray_backups \/ ~d[BACKUP].exists}
         /\ libinfo \in IF Lower(s.ext) = EXT_MP3 THEN LibInfos ELSE {"normal"}
    /\ \E n \in names :
         /\ file_name = SampleNames[n]
         /\ dir_name = SampleDirNames[n]
    /\ perform_integrity_check = FALSE
    /\ perform_path_validation = TRUE
    /\ integ = <<>>
    /\ report = <<>>
    /\ repair = <<>>

\* the repair engine does not look at the characters of a name past its "._"
Init == InitFile(TRUE, {1, 2}) /\ NoBatch /\ NoDisk

\* the same, with nothing at the backup path, which the validator never looks at
InitValidate == InitFile(FALSE, 1..Len(SampleNames)) /\ NoBatch /\ NoDisk

ToggleIntegrityCheck ==
    /\ perform_integrity_check' = ~perform_integrity_check
    /\ UNCHANGED <<fs, file_name, file_ext, dir_name, libinfo, perform_path_validation,
                   integ, report, repair, batchVars, diskVars>>

TogglePathValidation ==
    /\ perform_path_validation' = ~perform_path_validation
    /\ UNCHANGED <<fs, file_name, file_ext, dir_name, libinfo, perform_integrity_check,
                   integ, report, repair, batchVars, diskVars>>

\* validate_strict_profile(file_path, metadata) on the target
Validate ==
    /\ \E metadata \in SampleMetadata :
         report' = <<[metadata |-> metadata,
                      integrity_checked |-> perform_integrity_check,
                      path_validated |-> perform_path_validation,
                      res |-> validate_strict_profile(TargetFile, metadata,
                                                      perform_integrity_check,
                                                      perform_path_validation)]>>
    /\ UNCHANGED <<fs, file_name, file_ext, dir_name, libinfo, perform_integrity_check,
                   perform_path_validation, integ, repair, batchVars, diskVars>>

\* check_file_integrity(file_path, file_ext) on the target
CheckIntegrity ==
    /\ integ' = <<check_file_integrity(fs[TARGET], file_name, Lower(file_ext), libinfo)>>
    /\ UNCHANGED <<fs, file_name, file_ext, dir_name, libinfo, perform_integrity_check,
                   perform_path_validation, report, repair, batchVars, diskVars>>

\* repair_file_integrity(file_path, integrity_result) on the target, with the
\* result of a check of the target or with a result made up by the caller;
\* the result of an earlier check is stale afterwards
\* what is kept of a repair call: its argument, the file system before, its result
RepairRecord(arg, before, out) ==
    [can_repair |-> GetCanRepair(arg), repair_method |-> GetRepairMethod(arg),
     from_check |-> arg \notin CraftedResults, before |-> before,
     after |-> out.fs, success |-> out.success, trace |-> out.trace]

Repair ==
    /\ \E arg \in {check_file_integrity(fs[TARGET], file_name, Lower(file_ext), libinfo)}
                  \cup CraftedResults :
       \E env \in IF GetCanRepair(arg) /\ GetRepairMethod(arg) = "rebuild_flac"
                  THEN FlacEnvs ELSE {NoTools} :
         repair' = <<RepairRecord(arg, fs,
                                  repair_file_integrity(fs, TARGET, BACKUP, file_name,
                                                        Lower(file_ext), arg, libinfo, env))>>
    /\ fs' = repair'[1].after
    /\ integ' = <<>>
    /\ UNCHANGED <<file_name, file_ext, dir_name, libinfo, perform_integrity_check,
                   perform_path_validation, report, batchVars, diskVars>>

\* the integrity checker and the repair engine on one file
NextRepair ==
    \/ CheckIntegrity
    \/ Repair

SpecRepair == Init /\ [][NextRepair]_vars

\* the profile validator on one file, under the two toggles
NextValidate ==
    \/ ToggleIntegrityCheck
    \/ TogglePathValidation
    \/ Validate

SpecValidate == InitValidate /\ [][NextValidate]_vars

\* the names the path checks are run on: every short name over a few
\* characters of each kind, and names around the length limits
NameAlphabet == {"a", "-", " ", "_", "#", "e_acute", "cyrillic_ya"}
ShortNames == UNION {[1..n -> NameAlphabet] : n \in 1..MaxNameLen}
Repeat(c, n) == [i \in 1..n |-> c]
AtLimitName == Repeat("a", MAX_FILENAME_LENGTH - Len(EXT_MP3))
LongNames ==
    {AtLimitName, AtLimitName \o <<"a">>, <<"#">> \o AtLimitName,
     <<"e_acute">> \o AtLimitName, Repeat("b", MAX_DIRNAME_LENGTH),
     Repeat("b", MAX_DIRNAME_LENGTH + 1), Repeat("-", MAX_DIRNAME_LENGTH + 1)}
NameSamples == ShortNames \cup LongNames

\* the validator on a readable, well-formed .mp3 whose stem and whose parent
\* directory have the same sample name
InitNames ==
    /\ \E n \in NameSamples :
         /\ file_name = n
         /\ dir_name = n
    /\ file_ext = EXT_MP3
    /\ fs = Disk(FileWith(Mp3Tagged, <<TRUE, TRUE>>), NoFile)
    /\ libinfo = "normal"
    /\ perform_integrity_check = FALSE
    /\ perform_path_validation = TRUE
    /\ integ = <<>>
    /\ report = <<>>
    /\ repair = <<>>
    /\ NoBatch
    /\ NoDisk

\* the directory that holds the target, and the one that holds its directory
TargetListing == [n \in {file_name \o file_ext} |-> FileEntry(fs[TARGET], NoTags)]
ParentListing == [n \in {dir_name} |-> DirEntry]

\* what is kept of a rename call: its arguments, the directory before, its result
RenameCall(op, src, new, before, res) ==
    [op |-> op, src |-> src, new |-> new, before |-> before, res |-> res]

\* rename_file(file_path, suggested_filename) on the target, with the name the
\* last report suggests; the report is of the old name afterwards
RenameFileToSuggested ==
    /\ report # <<>>
    /\ ~report[1].res.raised
    /\ report[1].res.path.suggested_filename # <<>>
    /\ rename' = <<RenameCall("rename_file", file_name \o file_ext,
                              report[1].res.path.suggested_filename, TargetListing,
                              rename_file(TargetListing, file_name \o file_ext,
                                          report[1].res.path.suggested_filename))>>
    /\ file_name' = IF rename'[1].res.success
                    THEN Splitext(rename'[1].res.new_path[1]).stem ELSE file_name
    /\ file_ext' = IF rename'[1].res.success
                   THEN Splitext(rename'[1].res.new_path[1]).ext ELSE file_ext
    /\ report' = <<>>
    /\ UNCHANGED <<fs, dir_name, libinfo, perform_integrity_check, perform_path_validation,
                   integ, repair, batchVars, tree, autofix>>

\* rename_directory(dir_path, suggested_dirname) on the directory of the target
RenameDirectoryToSuggested ==
    /\ report # <<>>
    /\ ~report[1].res.raised
    /\ report[1].res.path.dir_can_rename
    /\ rename' = <<RenameCall("rename_directory", dir_name,
                              report[1].res.path.suggested_dirname, ParentListing,
                              rename_directory(ParentListing, dir_name,
                                               report[1].res.path.suggested_dirname))>>
    /\ dir_name' = IF rename'[1].res.success THEN rename'[1].res.new_path[1] ELSE dir_name
    /\ report' = <<>>
    /\ UNCHANGED <<fs, file_name, file_ext, libinfo, perform_integrity_check,
                   perform_path_validation, integ, repair, batchVars, tree, autofix>>

NextNames ==
    \/ TogglePathValidation
    \/ Validate
    \/ RenameFileToSuggested
    \/ RenameDirectoryToSuggested

SpecNames == InitNames /\ [][NextNames]_vars

\* the validator, the integrity checker and the repair engine on one macOS
\* resource file
ResourceSamples == {Sample(EXT_MP3, Mp3Good), Sample(EXT_WAV, WavBadRiff), Sample(EXT_AAF, <<>>)}
InitResource ==
    /\ \E s \in ResourceSamples :
         /\ file_ext = s.ext
         /\ fs \in SampleDisks(s.data)
    /\ libinfo = "normal"
    /\ file_name = ResourceName
    /\ dir_name = SampleDirNames[1]
    /\ perform_integrity_check = FALSE
    /\ perform_path_validation = TRUE
    /\ integ = <<>>
    /\ report = <<>>
    /\ repair = <<>>
    /\ NoBatch
    /\ NoDisk

NextResource ==
    \/ ToggleIntegrityCheck
    \/ Validate
    \/ CheckIntegrity
    \/ Repair

SpecResource == InitResource /\ [][NextResource]_vars

\* the two renames on one directory that holds up to three entries: audio
\* files, tagged or not, writable or not, and subdirectories
SomeTitle == <<"s", "o", "n", "g">>
SomeArtist == <<"B", "o", "b">>
RenameNames == {PlainName \o EXT_MP3, <<"t", "k">> \o EXT_MP3, SampleDirNames[1]}
RenameEntries ==
    {FileEntry(FileWith(Mp3Good, <<TRUE, TRUE>>), NoTags),
     FileEntry(FileWith(Mp3Tagged, <<TRUE, TRUE>>),
               [title |-> SomeTitle, artist |-> SomeArtist, album |-> <<>>]),
     FileEntry(FileWith(Mp3Tagged, <<TRUE, FALSE>>),
               [title |-> SomeTitle, artist |-> <<>>, album |-> <<>>]),
     DirEntry}
RenameTrees == UNION {[names -> RenameEntries] : names \in SUBSET RenameNames}

\* the editor with no file loaded
NoTarget ==
    /\ fs = Disk(NoFile, NoFile)
    /\ file_name = PlainName
    /\ file_ext = EXT_MP3
    /\ dir_name = SampleDirNames[1]
    /\ libinfo = "normal"
    /\ perform_integrity_check = FALSE
    /\ perform_path_validation = TRUE
    /\ integ = <<>>
    /\ report = <<>>
    /\ repair = <<>>

InitRename ==
    /\ NoTarget
    /\ NoBatch
    /\ tree \in RenameTrees
    /\ rename = <<>>
    /\ autofix = <<>>

\* rename_file(file_path, new_filename) on any name of the directory
RenameFile ==
    /\ \E src \in RenameNames, new \in RenameNames \cup {<<>>} :
         rename' = <<RenameCall("rename_file", src, new, tree, rename_file(tree, src, new))>>
    /\ tree' = rename'[1].res.tree
    /\ UNCHANGED <<fileVars, batchVars, autofix>>

\* rename_directory(dir_path, new_dirname) on any name of the directory
RenameDirectory ==
    /\ \E src \in RenameNames, new \in RenameNames \cup {<<>>} :
         rename' = <<RenameCall("rename_directory", src, new, tree,
                                rename_directory(tree, src, new))>>
    /\ tree' = rename'[1].res.tree
    /\ UNCHANGED <<fileVars, batchVars, autofix>>

NextRename ==
    \/ RenameFile
    \/ RenameDirectory

SpecRename == InitRename /\ [][NextRename]_vars

\* the check and the auto-fix on one audio file of a directory, which may
\* also hold a file under the name the path check suggests
UnderscoreName == <<"m", "y", "_", "s">>
FixNames == {PlainName, UnderscoreName, ResourceName}
FixExts == {EXT_MP3, EXT_FLAC, EXT_WAV}
BlankTitle == <<" ">>
LongTitle == Repeat("x", MaxFieldLength + 1)
LimitTitle == Repeat("y", MaxFieldLength)
Tags(title, artist, album) == [title |-> title, artist |-> artist, album |-> album]
FixTagSets ==
    {Tags(<<>>, SomeArtist, <<>>), Tags(BlankTitle, SomeArtist, SomeTitle),
     Tags(SomeTitle, <<>>, Repeat("z", MaxFieldLength + 50)),
     Tags(LongTitle, SomeArtist, LimitTitle), Tags(LimitTitle, LongTitle, <<>>),
     Tags(SomeTitle, SomeArtist, SomeTitle)}
\* the contents of a file by extension: with a tag block, without one, and
\* containers the library cannot parse
FixContents(ext) ==
    CASE ext = EXT_MP3  -> {Mp3Tagged, Mp3Good, Mp3NoSync, Mp3LeadingGarbage}
      [] ext = EXT_FLAC -> {FlacGood, FlacGarbage}
      [] ext = EXT_WAV  -> {WavGood, WavBadRiff}
FixEntries(ext) ==
    {FileEntry(FileWith(data, perm), tags) :
        data \in {Mp3Tagged, FlacGood} \cap FixContents(ext),
        perm \in {<<TRUE, TRUE>>, <<TRUE, FALSE>>}, tags \in FixTagSets}
    \cup {FileEntry(FileWith(data, <<TRUE, TRUE>>), NoTags) :
            data \in FixContents(ext) \ {Mp3Tagged, FlacGood}}
\* the directory with the file alone, or with another file under the name
\* the path check suggests for it
FixTrees(name, ext, entry) ==
    {[n \in {name \o ext} |-> entry],
     [n \in {name \o ext, SafeName(name, <<"a", "u", "d", "i", "o", "f", "i", "l", "e">>) \o ext} |->
        IF n = name \o ext THEN entry ELSE FileEntry(FileWith(Mp3Good, <<TRUE, TRUE>>), NoTags)]}

InitAutoFix ==
    /\ NoTarget
    /\ NoBatch
    /\ \E name \in FixNames, ext \in FixExts :
         \E entry \in FixEntries(ext) : tree \in FixTrees(name, ext, entry)
    /\ rename = <<>>
    /\ autofix = <<>>

\* the file at name as validate_strict_profile is given it
FileOf(dir, name, entry) ==
    [name |-> Splitext(name).stem, ext |-> Splitext(name).ext, dir_name |-> dir,
     path_len |-> 1 + Len(dir) + 1 + Len(name), f |-> entry.f, libinfo |-> "normal"]

\* what check_compatibility returns for one file: its path, the metadata read
\* from it, the switches, the report; of_tree is the directory it looked at
CheckRecord(full_path, md, integrity_check, path_validation, of_tree, res) ==
    [full_path |-> full_path, metadata |-> md, integrity_checked |-> integrity_check,
     path_validated |-> path_validation, of_tree |-> of_tree, res |-> res]

\* the extensions of the files the editor lists
supported_formats == {EXT_MP3, EXT_FLAC, EXT_WAV, EXT_AAF}

\* check_compatibility([file_path], read_metadata) on a listed file of the directory
CheckFile ==
    /\ \E name \in {n \in DOMAIN tree : /\ tree[n].kind = "file"
                                        /\ Lower(Splitext(n).ext) \in supported_formats} :
         report' = <<CheckRecord(name,
                        AsMetadata(read_metadata(tree[name], Lower(Splitext(name).ext))),
                        perform_integrity_check, perform_path_validation, tree,
                        validate_strict_profile(
                            FileOf(dir_name, name, tree[name]),
                            AsMetadata(read_metadata(tree[name], Lower(Splitext(name).ext))),
                            perform_integrity_check, perform_path_validation))>>
    /\ UNCHANGED <<fs, file_name, file_ext, dir_name, libinfo, perform_integrity_check,
                   perform_path_validation, integ, repair, batchVars, diskVars>>

\* what is kept of an auto-fix: the report it worked from, the directory
\* before, and what process_files did
FixCall(rep, before, integrity_on, out) ==
    [full_path |-> rep.full_path, results |-> rep.res, metadata |-> rep.metadata,
     before |-> before, integrity_on |-> integrity_on, out |-> out]

\* results['integrity'] after a repair that succeeded: the re-check of the file
RecheckedIntegrity(out, integrity) ==
    IF out.repaired /\ out.full_path \in DOMAIN out.tree
    THEN check_file_integrity(out.tree[out.full_path].f, Splitext(out.full_path).stem,
                              Lower(Splitext(out.full_path).ext), "normal")
    ELSE integrity

\* apply_all_fixes(report_data) on the report of the last check: it stores the
\* report in last_report_data and runs auto_fix_compatibility, whose
\* process_files runs here as one step
ApplyAllFixes ==
    /\ report # <<>>
    /\ ~report[1].res.raised
    /\ autofix' = <<FixCall(report[1], tree, perform_integrity_check,
                            process_file(tree, report[1].full_path, report[1].res,
                                         perform_integrity_check))>>
    /\ tree' = autofix'[1].out.tree
    /\ report' = <<[report[1] EXCEPT !.res.integrity =
                                        RecheckedIntegrity(autofix'[1].out, @)]>>
    /\ last_report_data' = <<[display_name |-> report[1].full_path,
                              full_path |-> report[1].full_path,
                              results |-> report'[1].res]>>
    /\ UNCHANGED <<fs, file_name, file_ext, dir_name, libinfo, perform_integrity_check,
                   perform_path_validation, integ, repair, files, checked_files_state,
                   call, listbox, current_dir, rename>>

\* the integrity check stays off, as after construction
NextAutoFix ==
    \/ TogglePathValidation
    \/ CheckFile
    \/ ApplyAllFixes

SpecAutoFix == InitAutoFix /\ [][NextAutoFix]_vars

\* ------------------------------------------------------------------------
\* Batch check: the file tree, check_compatibility and the report window
\* ------------------------------------------------------------------------
\* the audio files of the directories the editor may load, by full path
BatchEntry(dir, name, ext, data, meta) ==
    [dir_name |-> dir, name |-> name, ext |-> ext,
     path_len |-> 1 + Len(dir) + 1 + Len(name) + Len(ext),
     f |-> FileWith(data, <<TRUE, TRUE>>), libinfo |-> "normal", metadata |-> meta]
Tagged == Metadata(SomeText, SomeText, SomeText)
Untagged == Metadata(EmptyText, EmptyText, EmptyText)
BatchPaths ==
    {"/music/trk.mp3", "/music/trk.wav", "/music/._tk.mp3", "/my_n/trk.mp3"}
BatchFile(path) ==
    CASE path = "/music/trk.mp3"  -> BatchEntry(SampleDirNames[1], PlainName, EXT_MP3,
                                                Mp3Tagged, Tagged)
      [] path = "/music/trk.wav"  -> BatchEntry(SampleDirNames[1], PlainName, EXT_WAV,
                                                WavGood, Untagged)
      [] path = "/music/._tk.mp3" -> BatchEntry(SampleDirNames[1], ResourceName, EXT_MP3,
                                                Mp3Good, Tagged)
      [] path = "/my_n/trk.mp3"   -> BatchEntry(SampleDirNames[3], PlainName, EXT_MP3,
                                                Mp3NoSync, Untagged)

\* os.path.basename(file_path)
Basename(path) == BatchFile(path).name \o BatchFile(path).ext
\* metadata_reader(file_path)
ReadMetadata(path) == BatchFile(path).metadata

\* the lists of distinct paths a directory scan may hand to populate_file_tree
FileLists ==
    UNION {{q \in [1..n -> BatchPaths] : \A i, j \in 1..n : q[i] = q[j] => i = j} :
             n \in 1..MaxFiles}
\* the elements of seq at the positions in S, in order
PickSeq(seq, S) ==
    LET pick[i \in 0..Len(seq)] ==
            IF i = 0 THEN <<>>
            ELSE IF i \in S THEN Append(pick[i - 1], seq[i]) ELSE pick[i - 1]
    IN  pick[Len(seq)]

\* populate_file_tree: the state of each loaded file
InitialFileState(path) ==
    [checked |-> FALSE,
     status |-> IF IsResourceName(BatchFile(path).name) THEN "problem" ELSE "None",
     fixed |-> FALSE]

SumIssues(results) ==
    LET total[i \in 0..Len(results)] ==
            IF i = 0 THEN 0 ELSE total[i - 1] + Len(results[i].issues)
    IN  total[Len(results)]

\* what a call of check_compatibility leaves to its caller
CheckCall(files_to_check, extra_args, integrity_check, path_validation, raised, exc, report_data, total_issues) ==
    [files_to_check |-> files_to_check, with_callback |-> extra_args > 0,
     integrity_check |-> integrity_check, path_validation |-> path_validation,
     raised |-> raised, exc |-> exc, callbacks |-> <<>>,
     report_data |-> report_data, total_issues |-> total_issues]

\* what check_compatibility returns for the validation results of its files,
\* or the first exception one of them raised
CheckOutcome(files_to_check, extra_args, integrity_check, path_validation, results) ==
    IF \E i \in 1..Len(results) : results[i].raised
    THEN CheckCall(files_to_check, extra_args, integrity_check, path_validation, TRUE,
                   results[CHOOSE i \in 1..Len(results) :
                             results[i].raised /\ \A j \in 1..(i - 1) : ~results[j].raised].exc,
                   <<>>, 0)
    ELSE CheckCall(files_to_check, extra_args, integrity_check, path_validation, FALSE, "",
                   [i \in 1..Len(files_to_check) |->
                      [display_name |-> Basename(files_to_check[i]),
                       full_path |-> files_to_check[i],
                       results |-> results[i]]],
                   SumIssues(results))

\* check_compatibility(files_to_check, metadata_reader), called with
\* extra_args positional arguments after metadata_reader
check_compatibility(files_to_check, extra_args, integrity_check, path_validation) ==
    IF extra_args > 0
    THEN CheckCall(files_to_check, extra_args, integrity_check, path_validation,
                   TRUE, "TypeError: takes 3 positional arguments", <<>>, 0)
    ELSE CheckOutcome(files_to_check, extra_args, integrity_check, path_validation,
                      [i \in 1..Len(files_to_check) |->
                         validate_strict_profile(BatchFile(files_to_check[i]),
                                                 ReadMetadata(files_to_check[i]),
                                                 integrity_check, path_validation)])

\* the mark of a file that has no issue and no warning only
ReportMarkCountingWarnings(issue_count, warning_count) ==
    IF issue_count + warning_count = 0 THEN "ok" ELSE "issues"

\* status = "ok" if issue_count == 0 else "issues"
ReportMark(issue_count, warning_count) ==
    IF issue_count = 0 THEN "ok" ELSE "issues"

ReportColor(issue_count, warning_count) ==
    IF issue_count > 0 THEN "error_color"
    ELSE IF warning_count > 0 THEN "orange" ELSE "success_color"

\* show_compatibility_report: the lines of the file list
show_compatibility_report(report_data) ==
    [i \in 1..Len(report_data) |->
        LET issue_count == Len(report_data[i].results.issues)
            warning_count == Len(report_data[i].results.warnings)
        IN  [display_name |-> report_data[i].display_name,
             mark |-> ReportMark(issue_count, warning_count),
             issue_count |-> issue_count,
             color |-> ReportColor(issue_count, warning_count)]]

\* the status a report gives its file
ReportStatus(results) ==
    IF results.issues # <<>> THEN "problem"
    ELSE IF results.warnings # <<>> THEN "optimizable" ELSE "ok"

\* the first tracked path, in insertion order, with the basename of the report
FirstWithBasename(tracked, filename) ==
    LET hits == {i \in 1..Len(tracked) : Basename(tracked[i]) = filename}
    IN  IF hits = {} THEN 0 ELSE CHOOSE i \in hits : \A j \in hits : i <= j

\* the status update after a check: each report sets the status of the first
\* tracked file with its basename
UpdateStatuses(state, tracked, report_data) ==
    LET upd[k \in 0..Len(report_data)] ==
            IF k = 0 THEN state
            ELSE LET hit == FirstWithBasename(tracked, report_data[k].display_name)
                 IN  IF hit = 0 THEN upd[k - 1]
                     ELSE [upd[k - 1] EXCEPT ![tracked[hit]].status =
                                                ReportStatus(report_data[k].results)]
    IN  upd[Len(report_data)]

\* the editor after construction: no file loaded, no report
InitBatch ==
    /\ fs = Disk(NoFile, NoFile)
    /\ file_name = PlainName
    /\ file_ext = EXT_MP3
    /\ dir_name = SampleDirNames[1]
    /\ libinfo = "normal"
    /\ perform_integrity_check = FALSE
    /\ perform_path_validation = TRUE
    /\ integ = <<>>
    /\ report = <<>>
    /\ repair = <<>>
    /\ NoBatch
    /\ NoDisk

\* populate_file_tree(files); the report window is modal, so no report is open
PopulateFileTree ==
    /\ \E loaded \in FileLists :
         /\ files' = loaded
         /\ checked_files_state' =
                [path \in {loaded[i] : i \in 1..Len(loaded)} |-> InitialFileState(path)]
    /\ call' = <<>>
    /\ listbox' = <<>>
    /\ UNCHANGED <<diskVars, fileVars, last_report_data, current_dir>>

\* the files a user can check or select in the tree, in the order of the tree
Selections == {PickSeq(files, S) : S \in (SUBSET (1..Len(files))) \ {{}}}

\* CompatibilityChecker.check_compatibility(files_to_check, metadata_reader)
CheckCompatibility ==
    /\ files # <<>>
    /\ \E files_to_check \in Selections :
         call' = <<check_compatibility(files_to_check, 0, perform_integrity_check,
                                       perform_path_validation)>>
    /\ listbox' = <<>>
    /\ UNCHANGED <<diskVars, fileVars, files, checked_files_state, last_report_data,
                   current_dir>>

\* AudioMetadataEditor.check_compatibility_for_files(files_to_check): the call
\* with the status callback, the status update, and the except branch
CheckCompatibilityForFiles ==
    /\ files # <<>>
    /\ \E files_to_check \in Selections :
         call' = <<check_compatibility(files_to_check, 1, perform_integrity_check,
                                       perform_path_validation)>>
    /\ IF call'[1].raised
       THEN UNCHANGED <<last_report_data, checked_files_state>>
       ELSE /\ last_report_data' = call'[1].report_data
            /\ checked_files_state' =
                   UpdateStatuses(checked_files_state, files, call'[1].report_data)
    /\ listbox' = <<>>
    /\ UNCHANGED <<diskVars, fileVars, files, current_dir>>

\* show_compatibility_report(report_data, total_issues) on what a check returned
ShowCompatibilityReport ==
    /\ call # <<>>
    /\ ~call[1].raised
    /\ listbox' = show_compatibility_report(call[1].report_data)
    /\ UNCHANGED <<diskVars, fileVars, files, checked_files_state, call, last_report_data,
                   current_dir>>

NextBatch ==
    \/ PopulateFileTree
    \/ ToggleIntegrityCheck
    \/ TogglePathValidation
    \/ CheckCompatibility
    \/ CheckCompatibilityForFiles
    \/ ShowCompatibilityReport

SpecBatch == InitBatch /\ [][NextBatch]_vars

\* ------------------------------------------------------------------------
\* The disk as a tree of directories, and one batch of the auto-fix
\* ------------------------------------------------------------------------
\* a path is the sequence of the names from the root to the entry
Dirname(path) == SubSeq(path, 1, Len(path) - 1)
PathBasename(path) == path[Len(path)]
\* path.startswith(dir_path + os.sep)
IsUnder(path, dir_path) ==
    Len(path) > Len(dir_path) /\ SubSeq(path, 1, Len(dir_path)) = dir_path
\* os.path.join(new_dir_path, os.path.relpath(path, dir_path))
Rebase(path, dir_path, new_dir_path) ==
    new_dir_path \o SubSeq(path, Len(dir_path) + 1, Len(path))
\* len(path.split(os.sep)) of an absolute path
Depth(path) == Len(path) + 1

\* the entries of one directory of the disk, by name
Listing(disk, dir_path) ==
    [n \in {PathBasename(p) : p \in {q \in DOMAIN disk : q # <<>> /\ Dirname(q) = dir_path}} |->
        disk[Append(dir_path, n)]]

\* the disk after the files of one of its directories changed
WithListing(disk, dir_path, listing) ==
    LET kept == {p \in DOMAIN disk :
                   ~(p # <<>> /\ Dirname(p) = dir_path /\ disk[p].kind = "file")}
        new == {Append(dir_path, n) : n \in {m \in DOMAIN listing : listing[m].kind = "file"}}
    IN  [p \in kept \cup new |-> IF p \in new THEN listing[PathBasename(p)] ELSE disk[p]]

\* where os.rename(dir_path, new_path) of a directory puts an entry
MovedPath(p, dir_path, new_path) ==
    IF p = dir_path \/ IsUnder(p, dir_path) THEN Rebase(p, dir_path, new_path) ELSE p
\* the disk after os.rename(dir_path, new_path) of a directory
MoveDirectory(disk, dir_path, new_path) ==
    [q \in {MovedPath(p, dir_path, new_path) : p \in DOMAIN disk} |->
        disk[CHOOSE p \in DOMAIN disk : MovedPath(p, dir_path, new_path) = q]]

\* checked_files_state: its keys in insertion order, and the record of each key
Tracked(keys, state) == [keys |-> keys, state |-> state]

\* lines 1316-1322: the record of a renamed file is copied to its new path,
\* marked fixed, and the old key is deleted
TrackFileRename(tracked, old_path, new_path) ==
    IF old_path \notin DOMAIN tracked.state THEN tracked
    ELSE Tracked(IF new_path \in DOMAIN tracked.state
                 THEN SelectSeq(tracked.keys, LAMBDA k : k # old_path)
                 ELSE Append(SelectSeq(tracked.keys, LAMBDA k : k # old_path), new_path),
                 [k \in (DOMAIN tracked.state \ {old_path}) \cup {new_path} |->
                    IF k = new_path THEN [tracked.state[old_path] EXCEPT !.fixed = TRUE]
                    ELSE tracked.state[k]])

\* lines 1447-1451 and 1460-1464: the first tracked path whose basename is the
\* filename of the report is marked fixed, with status 'ok'
MarkFixed(tracked, filename) ==
    LET hits == {i \in 1..Len(tracked.keys) : PathBasename(tracked.keys[i]) = filename}
    IN  IF hits = {} THEN tracked
        ELSE Tracked(tracked.keys,
                     [tracked.state EXCEPT
                        ![tracked.keys[CHOOSE i \in hits : \A j \in hits : i <= j]] =
                            [@ EXCEPT !.fixed = TRUE, !.status = "ok"]])

\* the same for the files of the directory itself only
TrackDirRenameOfItsFilesOnly(tracked, dir_path, new_dir_path) ==
    LET moved(p) == IF p # <<>> /\ Dirname(p) = dir_path
                    THEN Rebase(p, dir_path, new_dir_path) ELSE p
        keys == [i \in 1..Len(tracked.keys) |-> moved(tracked.keys[i])]
    IN  Tracked(Distinct(keys),
                [q \in {keys[i] : i \in 1..Len(keys)} |->
                    tracked.state[tracked.keys[CHOOSE i \in 1..Len(keys) :
                        keys[i] = q /\ \A j \in 1..Len(keys) : keys[j] = q => j <= i]]])

\* lines 1488-1501: the keys under a renamed directory get the new prefix
TrackDirRename(tracked, dir_path, new_dir_path) ==
    LET moved(p) == IF IsUnder(p, dir_path) THEN Rebase(p, dir_path, new_dir_path) ELSE p
        keys == [i \in 1..Len(tracked.keys) |-> moved(tracked.keys[i])]
    IN  Tracked(Distinct(keys),
                [q \in {keys[i] : i \in 1..Len(keys)} |->
                    tracked.state[tracked.keys[CHOOSE i \in 1..Len(keys) :
                        keys[i] = q /\ \A j \in 1..Len(keys) : keys[j] = q => j <= i]]])

\* a directory waiting in dirs_to_rename
DirToRename(dir_path, suggested) == [dir_path |-> dir_path, suggested |-> suggested]

\* sorted(dirs, key=depth): shallowest first, equal depths in insertion order
DirsSortedShallowestFirst(dirs) ==
    LET rank(i) == Cardinality({j \in 1..Len(dirs) :
                       \/ Depth(dirs[j].dir_path) < Depth(dirs[i].dir_path)
                       \/ (Depth(dirs[j].dir_path) = Depth(dirs[i].dir_path) /\ j <= i)})
    IN  [k \in 1..Len(dirs) |-> dirs[CHOOSE i \in 1..Len(dirs) : rank(i) = k].dir_path]

\* sorted(dirs, key=depth, reverse=True): deepest first, equal depths in
\* insertion order
DirsSorted(dirs) ==
    LET rank(i) == Cardinality({j \in 1..Len(dirs) :
                       \/ Depth(dirs[j].dir_path) > Depth(dirs[i].dir_path)
                       \/ (Depth(dirs[j].dir_path) = Depth(dirs[i].dir_path) /\ j <= i)})
    IN  [k \in 1..Len(dirs) |-> dirs[CHOOSE i \in 1..Len(dirs) : rank(i) = k].dir_path]

\* the batch when auto_fix_compatibility starts its thread (lines 1245-1252)
NewBatch(report_data) ==
    [reports |-> report_data, pc |-> "files", idx |-> 0,
     fixed_count |-> 0, skipped_count |-> 0, path_renamed_count |-> 0,
     dir_renamed_count |-> 0, dirs_to_rename |-> <<>>, dirs_sorted |-> <<>>, didx |-> 0,
     log |-> <<>>]

\* what is kept of an operation of the batch: the path it was issued on, how
\* it ended, whether it renamed the path and where the entry is afterwards,
\* and the tracked state before the operation and after its rename
BatchOp(kind, path, status, renamed, new_path, before, after) ==
    [kind |-> kind, path |-> path, status |-> status, renamed |-> renamed,
     new_path |-> new_path, before |-> before, after |-> after]

\* the counters of one pass of the file loop: fixed_count at lines 1290, 1326,
\* 1444 and 1457, skipped_count at lines 1269, 1278, 1294 and 1454
FixedIncrement(out) ==
    (IF out.renamed THEN 1 ELSE 0)
    + (IF out.status \in {"fixed", "deleted"} THEN 1 ELSE 0)
SkippedIncrement(out) ==
    IF out.status \in {"skipped_not_found", "skipped_read_error", "delete_failed",
                       "write_failed"}
    THEN 1 ELSE 0

\* lines 1336-1344: the directory of the report is put in dirs_to_rename,
\* unless the pass ended at one of the continue statements before
CollectDir(dirs, rep, out, path_validation) ==
    IF /\ out.status \notin {"skipped_not_found", "skipped_read_error", "deleted",
                             "delete_failed"}
       /\ path_validation
       /\ rep.results.path.dir_can_rename
       /\ rep.results.path.suggested_dirname # <<>>
       /\ \A i \in 1..Len(dirs) : dirs[i].dir_path # Dirname(rep.full_path)
    THEN Append(dirs, DirToRename(Dirname(rep.full_path),
                                  rep.results.path.suggested_dirname))
    ELSE dirs

BatchState(disk, tracked, b) == [disk |-> disk, tracked |-> tracked, batch |-> b]

\* one pass of the file loop (lines 1260-1466) on the report rep, of which
\* process_file computed out
AfterFile(disk, tracked, b, rep, out, path_validation) ==
    LET new_path == Append(Dirname(rep.full_path), out.full_path)
        followed == IF out.renamed THEN TrackFileRename(tracked, rep.full_path, new_path)
                    ELSE tracked
    IN  BatchState(
            WithListing(disk, Dirname(rep.full_path), out.tree),
            IF out.status = "fixed" THEN MarkFixed(followed, rep.display_name) ELSE followed,
            [b EXCEPT !.idx = @ + 1,
                      !.reports[b.idx + 1].results.integrity = RecheckedIntegrity(out, @),
                      !.fixed_count = @ + FixedIncrement(out),
                      !.skipped_count = @ + SkippedIncrement(out),
                      !.path_renamed_count = @ + (IF out.renamed THEN 1 ELSE 0),
                      !.dirs_to_rename = CollectDir(@, rep, out, path_validation),
                      !.log = Append(@, BatchOp("file", rep.full_path, out.status, out.renamed, new_path,
                                                tracked, followed))])

\* one pass of the directory loop (lines 1474-1523) on dir_path, of which
\* rename_directory returned res
AfterDir(disk, tracked, b, dir_path, res) ==
    LET new_dir_path == Append(Dirname(dir_path), res.new_path[1])
    IN  IF res.success
        THEN BatchState(
                 MoveDirectory(disk, dir_path, new_dir_path),
                 TrackDirRename(tracked, dir_path, new_dir_path),
                 [b EXCEPT !.didx = @ + 1,
                           !.dirs_to_rename = SelectSeq(@, LAMBDA d : d.dir_path # dir_path),
                           !.dir_renamed_count = @ + 1,
                           !.fixed_count = @ + 1,
                           !.log = Append(@, BatchOp("dir", dir_path, "renamed", TRUE, new_dir_path,
                                                     tracked,
                                                     TrackDirRename(tracked, dir_path,
                                                                    new_dir_path)))])
        ELSE BatchState(disk, tracked,
                        [b EXCEPT !.didx = @ + 1,
                                  !.skipped_count = @ + 1,
                                  !.log = Append(@, BatchOp("dir", dir_path, "refused", FALSE, dir_path,
                                                            tracked, tracked))])

\* self.dirs_to_rename[dir_path] at line 1475
SuggestedFor(dirs, dir_path) ==
    dirs[CHOOSE i \in 1..Len(dirs) : dirs[i].dir_path = dir_path].suggested

\* ------------------------------------------------------------------------
\* The auto-fix of a batch: a scan, a check, then process_files step by step
\* ------------------------------------------------------------------------
\* the directories and files of the disks the batches run on
TopDir == SampleDirNames[1]
BadDir == <<"m", "y", "_", "d">>
BadSub == <<"s", "_", "b">>
TakenDir == SafeName(BadDir, <<"f", "o", "l", "d", "e", "r">>)
PlainTrack == PlainName \o EXT_MP3
BatchFixFiles ==
    {<<TopDir, BadDir, PlainTrack>>,
     <<TopDir, BadDir, BadSub, PlainTrack>>,
     <<TopDir, BadDir, UnderscoreName \o EXT_MP3>>,
     <<TopDir, ResourceName \o EXT_MP3>>}
\* an audio file with its tags, one without a title, one without a title
\* that cannot be written; a resource file holds no tag
BatchFixEntries(path) ==
    IF IsResourceName(PathBasename(path))
    THEN {FileEntry(FileWith(Mp3Good, <<TRUE, TRUE>>), NoTags)}
    ELSE {FileEntry(FileWith(Mp3Tagged, <<TRUE, TRUE>>), Tags(SomeTitle, SomeArtist, <<>>)),
          FileEntry(FileWith(Mp3Tagged, <<TRUE, TRUE>>), Tags(<<>>, SomeArtist, <<>>)),
          FileEntry(FileWith(Mp3Tagged, <<TRUE, FALSE>>), Tags(<<>>, SomeArtist, <<>>))}

\* the directories above a path
Ancestors(path) == {SubSeq(path, 1, n) : n \in 1..(Len(path) - 1)}
\* the disk that holds the files of entries, their directories and extra_dirs
DiskOf(entries, extra_dirs) ==
    [p \in DOMAIN entries \cup extra_dirs \cup UNION {Ancestors(q) : q \in DOMAIN entries} |->
        IF p \in DOMAIN entries THEN entries[p] ELSE DirEntry]
BatchFixDisks ==
    {DiskOf(entries, extra_dirs) :
        entries \in UNION {[paths -> UNION {BatchFixEntries(p) : p \in BatchFixFiles}] :
                             paths \in {ps \in SUBSET BatchFixFiles :
                                          Cardinality(ps) \in 1..MaxFiles}},
        extra_dirs \in {{<<TopDir>>}, {<<TopDir>>, <<TopDir, TakenDir>>}}}

InitBatchFix ==
    /\ NoTarget
    /\ NoBatch
    /\ tree \in {d \in BatchFixDisks :
                   \A p \in DOMAIN d : d[p].kind = "file" => d[p] \in BatchFixEntries(p)}
    /\ rename = <<>>
    /\ autofix = <<>>

\* len(file_path): a separator in front of each name
PathLen(path) ==
    LET total[i \in 0..Len(path)] ==
            IF i = 0 THEN 0 ELSE total[i - 1] + 1 + Len(path[i])
    IN  total[Len(path)]

\* the audio files of the disk under a directory, or in it
IsListedFile(disk, p) ==
    disk[p].kind = "file" /\ Lower(Splitext(PathBasename(p)).ext) \in supported_formats
FilesUnder(disk, dir_path) == {p \in DOMAIN disk : IsUnder(p, dir_path) /\ IsListedFile(disk, p)}
FilesIn(disk, dir_path) == {p \in FilesUnder(disk, dir_path) : Dirname(p) = dir_path}

\* a set of paths as the list os.walk(directory) or os.listdir(dir_path)
\* yields: a directory before the directories below it.  The order inside
\* one directory, which load_directory sorts by name, decides no lookup of
\* the model; one order stands for all.
RECURSIVE WalkOrder(_)
WalkOrder(paths) ==
    IF paths = {} THEN <<>>
    ELSE LET first == CHOOSE p \in paths : \A q \in paths : Len(p) <= Len(q)
         IN  <<first>> \o WalkOrder(paths \ {first})

\* populate_file_tree(files): every file unchecked, a resource file a problem
FreshState(path) ==
    [checked |-> FALSE,
     status |-> IF IsResourceName(PathBasename(path)) THEN "problem" ELSE "None",
     fixed |-> FALSE]
Populated(paths) == Tracked(WalkOrder(paths), [p \in paths |-> FreshState(p)])

TrackedNow == Tracked(files, checked_files_state)
BatchRunning == autofix # <<>>
IsDir(disk, p) == p \in DOMAIN disk /\ disk[p].kind = "dir"

\* scan_directory_recursively on a directory of the disk, the user agreeing
\* to proceed: the files under it are loaded; the check that follows is
\* CheckTrackedForFiles
ScanDirectoryRecursively ==
    /\ ~BatchRunning
    /\ \E directory \in {p \in DOMAIN tree : IsDir(tree, p)} :
         /\ FilesUnder(tree, directory) # {}
         /\ current_dir' = directory
         /\ files' = Populated(FilesUnder(tree, directory)).keys
         /\ checked_files_state' = Populated(FilesUnder(tree, directory)).state
    /\ UNCHANGED <<fileVars, call, last_report_data, listbox, diskVars>>

\* browse_directory and load_directory on a directory of the disk
LoadDirectory ==
    /\ ~BatchRunning
    /\ \E dir_path \in {p \in DOMAIN tree : IsDir(tree, p)} :
         /\ current_dir' = dir_path
         /\ files' = Populated(FilesIn(tree, dir_path)).keys
         /\ checked_files_state' = Populated(FilesIn(tree, dir_path)).state
    /\ UNCHANGED <<fileVars, call, last_report_data, listbox, diskVars>>

\* the file at path as validate_strict_profile is given it
FileOfPath(disk, path) ==
    [name |-> Splitext(PathBasename(path)).stem, ext |-> Splitext(PathBasename(path)).ext,
     dir_name |-> PathBasename(Dirname(path)), path_len |-> PathLen(path),
     f |-> disk[path].f, libinfo |-> "normal"]

\* the report of one file in report_data
ReportOf(disk, path, integrity_check, path_validation) ==
    [display_name |-> PathBasename(path), full_path |-> path,
     results |-> validate_strict_profile(
                     FileOfPath(disk, path),
                     AsMetadata(read_metadata(disk[path],
                                              Lower(Splitext(PathBasename(path)).ext))),
                     integrity_check, path_validation)]

\* what a check of tracked files leaves: who called, the exception or the
\* report data
TrackedCheck(by, raised, report_data) ==
    [by |-> by, raised |-> raised, report_data |-> report_data]
CheckedReports(by, reports) ==
    IF \E i \in 1..Len(reports) : reports[i].results.raised
    THEN TrackedCheck(by, TRUE, <<>>)
    ELSE TrackedCheck(by, FALSE, reports)

\* the tracked files a user can check, in the order of the tree
TrackedSelections == {PickSeq(files, S) : S \in (SUBSET (1..Len(files))) \ {{}}}

\* CompatibilityChecker.check_compatibility(files_to_check, metadata_reader)
\* on tracked files that exist
CheckTracked ==
    /\ ~BatchRunning
    /\ \E files_to_check \in TrackedSelections :
         /\ \A i \in 1..Len(files_to_check) :
              files_to_check[i] \in DOMAIN tree /\ tree[files_to_check[i]].kind = "file"
         /\ call' = <<CheckedReports("check_compatibility",
                          [i \in 1..Len(files_to_check) |->
                              ReportOf(tree, files_to_check[i], perform_integrity_check,
                                       perform_path_validation)])>>
    /\ UNCHANGED <<fileVars, files, checked_files_state, last_report_data, listbox,
                   current_dir, diskVars>>

\* AudioMetadataEditor.check_compatibility_for_files(files_to_check): the
\* checker is called with the status callback as a third positional
\* argument, which raises TypeError before any status is set
CheckTrackedForFiles ==
    /\ ~BatchRunning
    /\ files # <<>>
    /\ call' = <<TrackedCheck("check_compatibility_for_files", TRUE, <<>>)>>
    /\ UNCHANGED <<fileVars, files, checked_files_state, last_report_data, listbox,
                   current_dir, diskVars>>

\* apply_all_fixes(report_data) with the report data of the last check, no
\* batch running: last_report_data is set and auto_fix_compatibility starts
\* process_files
StartAutoFix ==
    /\ ~BatchRunning
    /\ call # <<>>
    /\ ~call[1].raised
    /\ last_report_data' = call[1].report_data
    /\ autofix' = <<NewBatch(call[1].report_data)>>
    /\ UNCHANGED <<fileVars, files, checked_files_state, call, listbox, current_dir,
                   tree, rename>>

\* the state after a step of the batch
BatchStepTo(next) ==
    /\ tree' = next.disk
    /\ files' = next.tracked.keys
    /\ checked_files_state' = next.tracked.state
    /\ autofix' = <<next.batch>>
    /\ last_report_data' = next.batch.reports
    /\ UNCHANGED <<fileVars, call, listbox, current_dir, rename>>

\* one pass of the loop over last_report_data
FixNextFile ==
    /\ BatchRunning
    /\ autofix[1].pc = "files"
    /\ autofix[1].idx < Len(autofix[1].reports)
    /\ BatchStepTo(
           LET rep == autofix[1].reports[autofix[1].idx + 1]
           IN  AfterFile(tree, TrackedNow, autofix[1], rep,
                         process_file(Listing(tree, Dirname(rep.full_path)),
                                      PathBasename(rep.full_path), rep.results,
                                      perform_integrity_check),
                         perform_path_validation))

\* lines 1469-1472: the loop over the reports is over; the directories are
\* sorted if there are any and the path validation is on
SortDirectories ==
    /\ BatchRunning
    /\ autofix[1].pc = "files"
    /\ autofix[1].idx = Len(autofix[1].reports)
    /\ autofix' = <<IF autofix[1].dirs_to_rename # <<>> /\ perform_path_validation
                    THEN [autofix[1] EXCEPT !.pc = "dirs",
                                            !.dirs_sorted = DirsSorted(autofix[1].dirs_to_rename)]
                    ELSE [autofix[1] EXCEPT !.pc = "summary"]>>
    /\ UNCHANGED <<fileVars, batchVars, tree, rename>>

\* one pass of the loop over dirs_sorted
RenameNextDirectory ==
    /\ BatchRunning
    /\ autofix[1].pc = "dirs"
    /\ autofix[1].didx < Len(autofix[1].dirs_sorted)
    /\ BatchStepTo(
           LET dir_path == autofix[1].dirs_sorted[autofix[1].didx + 1]
           IN  AfterDir(tree, TrackedNow, autofix[1], dir_path,
                        rename_directory(Listing(tree, Dirname(dir_path)),
                                         PathBasename(dir_path),
                                         SuggestedFor(autofix[1].dirs_to_rename, dir_path))))

DirectoriesDone ==
    /\ BatchRunning
    /\ autofix[1].pc = "dirs"
    /\ autofix[1].didx = Len(autofix[1].dirs_sorted)
    /\ autofix' = <<[autofix[1] EXCEPT !.pc = "summary"]>>
    /\ UNCHANGED <<fileVars, batchVars, tree, rename>>

\* lines 1525-1589 on a host that is not macOS: the summary, then
\* load_directory(current_dir), which loads the files of the directory again
\* unless listing it fails; the counters end with the thread
FinishAutoFix ==
    /\ BatchRunning
    /\ autofix[1].pc = "summary"
    /\ autofix' = <<>>
    /\ IF IsDir(tree, current_dir)
       THEN /\ files' = Populated(FilesIn(tree, current_dir)).keys
            /\ checked_files_state' = Populated(FilesIn(tree, current_dir)).state
       ELSE UNCHANGED <<files, checked_files_state>>
    /\ UNCHANGED <<fileVars, call, last_report_data, listbox, current_dir, tree, rename>>

\* both switches stay as after construction: the integrity check off, the
\* path validation on
NextBatchFix ==
    \/ ScanDirectoryRecursively
    \/ LoadDirectory
    \/ CheckTracked
    \/ CheckTrackedForFiles
    \/ StartAutoFix
    \/ FixNextFile
    \/ SortDirectories
    \/ RenameNextDirectory
    \/ DirectoriesDone
    \/ FinishAutoFix

SpecBatchFix == InitBatchFix /\ [][NextBatchFix]_vars

\* ------------------------------------------------------------------------
\* The worker threads of the auto-fix and the progress window
\* ------------------------------------------------------------------------
\* auto_fix_compatibility starts a thread each time it is called.  Nothing in
\* the code keeps a second call away but the grab of the progress window;
\* the window has no handler for being closed, and a thread whose window is
\* gone ends at its next call of add_log or update_progress, which raises.
MaxWorkers == 2
OtherTrack == <<"t", "k">> \o EXT_MP3
WorkerFiles == {<<TopDir, PlainTrack>>, <<TopDir, OtherTrack>>}
WorkerDisks ==
    {DiskOf(entries, {<<TopDir>>}) :
        entries \in UNION {[paths -> BatchFixEntries(<<TopDir, PlainTrack>>)] :
                             paths \in (SUBSET WorkerFiles) \ {{}}}}

InitWorkers ==
    /\ NoTarget
    /\ NoBatch
    /\ tree \in WorkerDisks
    /\ rename = <<>>
    /\ autofix = <<>>

\* a thread of process_files: the batch it works on, its progress window,
\* and pc: "files" between two passes, "write" inside write_metadata,
\* "ended" when it returned or raised
NewWorker(report_data) ==
    [k \in DOMAIN NewBatch(report_data) \cup {"window"} |->
        IF k = "window" THEN "open" ELSE NewBatch(report_data)[k]]
Workers == 1..Len(autofix)
Alive(w) == autofix[w].pc # "ended"
\* the path the pass of worker w is on
PassPath(w) == autofix[w].reports[autofix[w].idx + 1].full_path
\* the pass of worker w as process_file runs it now
PassOutcome(w) ==
    process_file(Listing(tree, Dirname(PassPath(w))), PathBasename(PassPath(w)),
                 autofix[w].reports[autofix[w].idx + 1].results, perform_integrity_check)
AfterPass(w) ==
    AfterFile(tree, TrackedNow, autofix[w], autofix[w].reports[autofix[w].idx + 1],
              PassOutcome(w), perform_path_validation)

\* the "Apply all fixes" button of the report window: apply_all_fixes and
\* auto_fix_compatibility, up to the start of the thread.  The button takes
\* no click while a progress window holds the grab.
WorkerStart ==
    /\ Len(autofix) < MaxWorkers
    /\ call # <<>>
    /\ ~call[1].raised
    /\ \A w \in Workers : autofix[w].window = "closed"
    /\ last_report_data' = call[1].report_data
    /\ autofix' = Append(autofix, NewWorker(call[1].report_data))
    /\ UNCHANGED <<fileVars, files, checked_files_state, call, listbox, current_dir,
                   tree, rename>>

\* the user closes a progress window through the window manager: the window
\* is destroyed and its grab released; the thread is not told
CloseProgressWindow ==
    /\ \E w \in Workers :
         /\ autofix[w].window = "open"
         /\ autofix' = [autofix EXCEPT ![w].window = "closed"]
    /\ UNCHANGED <<fileVars, batchVars, tree, rename>>

\* lines 1260-1439: a thread starts a pass.  update_progress raises when the
\* window is gone; a file that needs a tag written takes the thread into
\* write_metadata, any other pass ends here
WorkerBeginPass ==
    /\ \E w \in Workers :
         /\ autofix[w].pc = "files"
         /\ autofix[w].idx < Len(autofix[w].reports)
         /\ IF autofix[w].window = "closed"
            THEN /\ autofix' = [autofix EXCEPT ![w].pc = "ended"]
                 /\ UNCHANGED <<tree, files, checked_files_state>>
            ELSE IF PassOutcome(w).written # <<>>
            THEN /\ autofix' = [autofix EXCEPT ![w].pc = "write"]
                 /\ UNCHANGED <<tree, files, checked_files_state>>
            ELSE /\ autofix' = [autofix EXCEPT ![w] = AfterPass(w).batch]
                 /\ tree' = AfterPass(w).disk
                 /\ files' = AfterPass(w).tracked.keys
                 /\ checked_files_state' = AfterPass(w).tracked.state
    /\ UNCHANGED <<fileVars, call, last_report_data, listbox, current_dir, rename>>

\* lines 1440-1454: write_metadata returns.  The add_log that follows raises
\* when the window is gone, before the file is counted or marked
WorkerEndPass ==
    /\ \E w \in Workers :
         /\ autofix[w].pc = "write"
         /\ tree' = AfterPass(w).disk
         /\ IF autofix[w].window = "closed"
            THEN /\ autofix' = [autofix EXCEPT ![w].pc = "ended"]
                 /\ UNCHANGED <<files, checked_files_state>>
            ELSE /\ autofix' = [autofix EXCEPT ![w] = [AfterPass(w).batch EXCEPT !.pc = "files"]]
                 /\ files' = AfterPass(w).tracked.keys
                 /\ checked_files_state' = AfterPass(w).tracked.state
    /\ UNCHANGED <<fileVars, call, last_report_data, listbox, current_dir, rename>>

\* lines 1468-1589 with no directory to rename: the summary, whose add_log
\* raises when the window is gone, and the reload of the directory
WorkerFinish ==
    /\ \E w \in Workers :
         /\ autofix[w].pc = "files"
         /\ autofix[w].idx = Len(autofix[w].reports)
         /\ autofix' = [autofix EXCEPT ![w].pc = "ended"]
         /\ IF autofix[w].window = "open" /\ IsDir(tree, current_dir)
            THEN /\ files' = Populated(FilesIn(tree, current_dir)).keys
                 /\ checked_files_state' = Populated(FilesIn(tree, current_dir)).state
            ELSE UNCHANGED <<files, checked_files_state>>
    /\ UNCHANGED <<fileVars, call, last_report_data, listbox, current_dir, tree, rename>>

NextWorkers ==
    \/ ScanDirectoryRecursively
    \/ CheckTracked
    \/ WorkerStart
    \/ CloseProgressWindow
    \/ WorkerBeginPass
    \/ WorkerEndPass
    \/ WorkerFinish

SpecWorkers == InitWorkers /\ [][NextWorkers]_vars

\* ------------------------------------------------------------------------
\* Properties of the repair engine and the integrity checker (SpecRepair)
\* ------------------------------------------------------------------------
Repaired == repair # <<>>
Checked == integ # <<>>
SameContent(f, g) == f.exists = g.exists /\ f.data = g.data
Logged(event) == \E i \in 1..Len(repair[1].trace.log) : repair[1].trace.log[i] = event

\* C1 - Repair safety: after a repair call that returned success = false, the
\* target has the content it had before the call, whatever the repair method.
C1_RepairSafety ==
    (Repaired /\ ~repair[1].success)
        => SameContent(fs[TARGET], repair[1].before[TARGET])

\* a failed FLAC repair whose first stage had overwritten the target
C1_Witness ==
    /\ Repaired
    /\ ~repair[1].success
    /\ repair[1].trace.strategy = "rebuild_flac"
    /\ Logged("stage1_written")
    /\ repair[1].before[TARGET].data # <<>>

\* C2 - The backup is transient: after a repair call has returned there is no
\* file at <path>.bak.  Stated for the calls that were given the result of a
\* check of the file and found nothing at <path>.bak, so that a file left
\* there is one the call itself created.
C2_BackupIsTransient ==
    (Repaired /\ repair[1].from_check /\ ~repair[1].before[BACKUP].exists)
        => ~fs[BACKUP].exists

\* C3 - When can_repair is false or absent the repair returns success = false
\* and touches nothing: no file is changed, the target is not opened, no
\* backup is written and no strategy runs.
C3_RefusedRepairTouchesNothing ==
    (Repaired /\ ~repair[1].can_repair)
        => /\ ~repair[1].success
           /\ fs = repair[1].before
           /\ ~repair[1].trace.read_target
           /\ ~repair[1].trace.backup_written
           /\ repair[1].trace.strategy = "none"

\* a refused repair of a file that a repair would have rewritten
C3_Witness ==
    /\ Repaired
    /\ ~repair[1].can_repair
    /\ repair[1].repair_method = "rebuild_wav"
    /\ fs[TARGET] = FileWith(WavBadRiff, <<TRUE, TRUE>>)

\* C4 - Repair convergence: after a repair that reported success and left the
\* file in place, a check of the file returns status OK.  Stated for repairs
\* that were given the result of a check of the file, on a stream of which
\* the tag library reports a plausible duration and bitrate.
C4_RepairConvergence ==
    (Repaired /\ Checked /\ repair[1].success /\ repair[1].from_check
       /\ libinfo = "normal" /\ fs[TARGET].exists)
        => integ[1].status = "OK"

\* C5 - IntegrityResult invariant: a result of check_file_integrity with
\* can_repair = true has a real repair method and status Error.
C5_RepairableImpliesError ==
    (Checked /\ integ[1].can_repair)
        => /\ integ[1].repair_method \in RepairMethods
           /\ integ[1].status = "Error"

ZeroByteVerdict ==
    /\ integ[1].status = "Error"
    /\ integ[1].issues = <<"Zero-byte file detected">>
    /\ ~integ[1].can_repair
    /\ integ[1].branch = "none"

\* C10 as stated - for an empty file of any name and extension the check
\* returns Error, exactly the zero-byte issue, can_repair = false, and runs no
\* format-specific check.
C10_ZeroByteAnyName ==
    (Checked /\ fs[TARGET].exists /\ fs[TARGET].data = <<>>) => ZeroByteVerdict

\* C10 as amended - the same for an empty file that can be opened for reading
\* and whose basename does not start with "._".
C10_ZeroByteReadablePlainName ==
    (Checked /\ fs[TARGET].exists /\ fs[TARGET].data = <<>>
       /\ fs[TARGET].r /\ ~IsResourceName(file_name))
        => ZeroByteVerdict

\* an empty, readable .mp3 with a plain name has been checked
C10_Witness ==
    /\ Checked
    /\ fs[TARGET] = FileWith(<<>>, <<TRUE, TRUE>>)
    /\ file_name = PlainName
    /\ Lower(file_ext) = EXT_MP3

BadRiff(f) == f.exists /\ f.data # <<>> /\ Slice(f.data, 0, 4) # RIFF_MAGIC

\* C11 - Corrupted WAV header: for a non-empty .wav whose first 4 bytes are
\* not 'RIFF', whatever its size field says, the check returns Error,
\* can_repair = true and rebuild_wav; and after a successful repair of such a
\* file bytes 0-3 are 'RIFF' and bytes 8-11 are 'WAVE'.  Stated for files that
\* can be opened for reading and whose basename does not start with "._".
C11_CorruptedWavHeader ==
    /\ (Checked /\ Lower(file_ext) = EXT_WAV /\ BadRiff(fs[TARGET])
          /\ fs[TARGET].r /\ ~IsResourceName(file_name))
         => /\ integ[1].status = "Error"
            /\ integ[1].can_repair
            /\ integ[1].repair_method = "rebuild_wav"
    /\ (Repaired /\ repair[1].success /\ repair[1].from_check
          /\ Lower(file_ext) = EXT_WAV /\ BadRiff(repair[1].before[TARGET])
          /\ ~IsResourceName(file_name))
         => /\ Slice(fs[TARGET].data, 0, 4) = RIFF_MAGIC
            /\ Slice(fs[TARGET].data, 8, 12) = WAVE_MAGIC

\* C12, the part of the integrity checker and the repair engine: a file whose
\* basename starts with "._" is classified Error, repairable by
\* delete_resource_file, and a successful repair of it leaves neither the
\* file nor a file at the backup path.
ResourceFileCheckedAndRepaired ==
    /\ (Checked /\ IsResourceName(file_name))
         => /\ integ[1].status = "Error"
            /\ integ[1].can_repair
            /\ integ[1].repair_method = "delete_resource_file"
    /\ (Repaired /\ repair[1].success /\ repair[1].repair_method = "delete_resource_file")
         => (~fs[TARGET].exists /\ ~fs[BACKUP].exists)

\* the repair ran the stages of _repair_flac
FlacStagesRan == Repaired /\ repair[1].trace.strategy = "rebuild_flac" /\ repair[1].trace.log # <<>>
RepairLog == repair[1].trace.log
\* position of an event in the log, 0 if it is not there
LogPos(event) ==
    IF Logged(event) THEN CHOOSE i \in 1..Len(RepairLog) : RepairLog[i] = event ELSE 0
StagePassed(n) ==
    Logged(CASE n = 1 -> "stage1_check_ok" [] n = 2 -> "stage2_check_ok"
             [] n = 3 -> "stage3_check_ok")
StageWrote(n) ==
    LogPos(CASE n = 1 -> "stage1_written" [] n = 2 -> "stage2_written"
             [] n = 3 -> "stage3_written")
StageEntered(n) ==
    LogPos(CASE n = 1 -> "stage1" [] n = 2 -> "stage2" [] n = 3 -> "stage3")

\* C17 - The FLAC repair never fabricates success: it returns success only
\* when the last thing it did was an integrity check, right after the stage
\* that wrote the target, which returned OK for the content the target now
\* has; otherwise it goes through the final restore, returns failure and the
\* target has its original content.
C17_FlacNeverFabricatesSuccess ==
    FlacStagesRan =>
        IF repair[1].success
        THEN /\ \E n \in 1..3 :
                  /\ StagePassed(n)
                  /\ StageWrote(n) = Len(RepairLog) - 1
                  /\ RepairLog[Len(RepairLog)] \in
                         {"stage1_check_ok", "stage2_check_ok", "stage3_check_ok"}
             /\ check_file_integrity(fs[TARGET], file_name, Lower(file_ext), libinfo).status
                    = "OK"
        ELSE /\ \A n \in 1..3 : ~StagePassed(n)
             /\ RepairLog[Len(RepairLog)] = "final_restore"
             /\ SameContent(fs[TARGET], repair[1].before[TARGET])

\* a FLAC repair that succeeded in its first stage, on a file that did not
\* pass the check before
C17_Witness ==
    /\ FlacStagesRan
    /\ repair[1].success
    /\ StagePassed(1)
    /\ check_file_integrity(repair[1].before[TARGET], file_name, Lower(file_ext),
                             libinfo).status # "OK"

\* C20 - FLAC repair stage order: the stages are entered in the order 1, 2,
\* 3; stage 2 is entered exactly when stage 1 did not pass its check and
\* stage 3 exactly when stage 2 was entered and did not pass; the tools of
\* stages 2 and 3 start on the original content of the target; and with
\* flac missing stage 2 is still entered, with ffmpeg missing stage 3 ends in
\* the final restore and a returned failure.
C20_FlacStageOrder ==
    FlacStagesRan =>
        /\ StageEntered(1) = 1
        /\ (StageEntered(2) > 0) <=> ~StagePassed(1)
        /\ (StageEntered(3) > 0) <=> (StageEntered(2) > 0 /\ ~StagePassed(2))
        /\ StageEntered(2) > 0 => StageEntered(2) > StageEntered(1)
        /\ StageEntered(3) > 0 => StageEntered(3) > StageEntered(2)
        /\ \A i \in 1..Len(repair[1].trace.starts) :
              repair[1].trace.starts[i].stage \in {2, 3}
                  => repair[1].trace.starts[i].data = repair[1].before[TARGET].data
        /\ Logged("stage1_tool_missing") => StageEntered(2) > 0
        /\ Logged("stage3_skipped") => (Logged("final_restore") /\ ~repair[1].success)

\* a FLAC repair whose first stage overwrote the target with something else
\* and failed its check, whose second stage started, and whose third stage
\* found no ffmpeg
C20_Witness ==
    /\ FlacStagesRan
    /\ Logged("stage1_written")
    /\ repair[1].before[TARGET].data \notin ToolOutputs
    /\ \E i \in 1..Len(repair[1].trace.starts) : repair[1].trace.starts[i].stage = 2
    /\ Logged("stage3_skipped")

\* C29 - repair affects only its target: after repair_file_integrity(path, ...)
\* returns, every file other than path is as it was before the call; a file
\* that was at path + '.bak' is still there with its content.
C29_RepairAffectsOnlyTarget ==
    Repaired =>
        /\ repair[1].after[BACKUP] = repair[1].before[BACKUP]
        /\ repair[1].before[BACKUP].exists
             => /\ repair[1].after[BACKUP].exists
                /\ repair[1].after[BACKUP].data = repair[1].before[BACKUP].data

\* a repair that is refused leaves the file at the backup path alone
RefusedRepairKeepsBackupPath ==
    (Repaired /\ ~repair[1].can_repair) => repair[1].after = repair[1].before

\* ------------------------------------------------------------------------
\* Properties of validate_strict_profile (SpecValidate)
\* ------------------------------------------------------------------------
Validated == report # <<>>
HasFinding(list, text) == \E i \in 1..Len(list) : list[i].text = text

\* C6 - validate_strict_profile never raises: whatever the file and the two
\* switches, it returns a report with the keys issues, warnings,
\* recommendations, format_info, integrity and path.
C6_ValidateNeverRaises ==
    (Validated /\ fs[TARGET].exists)
        => (~report[1].res.raised /\ report[1].res.keys = ReportKeys)

\* C7 - WAV tag-absence policy: for a .wav whose metadata has an empty title
\* and an empty artist, whether or not its container can be parsed, the
\* issues hold neither "Missing title tag" nor "Missing artist tag" and the
\* warnings hold both downgraded notices.  Stated for the calls that returned,
\* on a file that exists and can be opened for reading.
C7_WavTagAbsencePolicy ==
    (Validated /\ ~report[1].res.raised /\ Lower(file_ext) = EXT_WAV
       /\ CanOpenRead(fs, TARGET)
       /\ report[1].metadata.title = EmptyText
       /\ report[1].metadata.artist = EmptyText)
        => /\ ~HasFinding(report[1].res.issues, "Missing title tag")
           /\ ~HasFinding(report[1].res.issues, "Missing artist tag")
           /\ HasFinding(report[1].res.warnings,
                         "Missing title tag (normal for WAV files)")
           /\ HasFinding(report[1].res.warnings,
                         "Missing artist tag (normal for WAV files)")

\* C24 - content hash in the report: when the integrity check is enabled and
\* a hash was computed, format_info['md5_checksum'] holds that hash, whatever
\* the integrity status; when the check is disabled the report's integrity is
\* status OK with no issues and an empty md5, and no issue starts with
\* 'Integrity issue: '.
C24_HashInFormatInfo ==
    (Validated /\ ~report[1].res.raised) =>
        /\ (report[1].integrity_checked /\ report[1].res.integrity.md5 # <<>>)
             => /\ "md5_checksum" \in report[1].res.info_keys
                /\ report[1].res.md5_checksum = report[1].res.integrity.md5
        /\ (~report[1].integrity_checked)
             => /\ report[1].res.integrity.status = "OK"
                /\ report[1].res.integrity.issues = <<>>
                /\ report[1].res.integrity.md5 = <<>>
                /\ \A i \in 1..Len(report[1].res.issues) :
                     report[1].res.issues[i].prefix # "Integrity issue: "

\* the same, with the hash required only when the status is not OK
HashInFormatInfoUnlessOK ==
    (Validated /\ ~report[1].res.raised) =>
        /\ (report[1].integrity_checked /\ report[1].res.integrity.md5 # <<>>
              /\ report[1].res.integrity.status # "OK")
             => /\ "md5_checksum" \in report[1].res.info_keys
                /\ report[1].res.md5_checksum = report[1].res.integrity.md5
        /\ (report[1].integrity_checked /\ report[1].res.integrity.status = "OK")
             => "md5_checksum" \notin report[1].res.info_keys
        /\ (~report[1].integrity_checked)
             => /\ report[1].res.integrity.status = "OK"
                /\ report[1].res.integrity.issues = <<>>
                /\ report[1].res.integrity.md5 = <<>>
                /\ \A i \in 1..Len(report[1].res.issues) :
                     report[1].res.issues[i].prefix # "Integrity issue: "

\* ------------------------------------------------------------------------
\* Properties of the path checks (SpecNames)
\* ------------------------------------------------------------------------
OnlyAllowedChars(name) == \A i \in 1..Len(name) : IsAllowedChar(name[i])
\* the suggested filename without its extension
SuggestedStem ==
    SubSeq(report[1].res.path.suggested_filename, 1,
           Len(report[1].res.path.suggested_filename) - Len(file_ext))
FileRenameProposed == Validated /\ report[1].res.path.suggested_filename # <<>>
DirRenameProposed == Validated /\ report[1].res.path.dir_can_rename

\* C15 - Filename sanitization: whenever a rename of the file or of its
\* directory is proposed, names long enough to be truncated included, the
\* suggested name (for a file: its stem) is the one the path check computes
\* for that name and holds only characters of [0-9a-zA-Z\- ].
C15_SuggestedNameIsClean ==
    /\ FileRenameProposed
         => /\ report[1].res.path.suggested_filename =
                  check_path_issues(file_name, file_ext, TargetPathLen,
                                    report[1].path_validated).suggested
            /\ OnlyAllowedChars(SuggestedStem)
    /\ DirRenameProposed
         => /\ report[1].res.path.suggested_dirname =
                  check_directory_path(dir_name, report[1].path_validated).suggested
            /\ OnlyAllowedChars(report[1].res.path.suggested_dirname)

\* the same for the names that are not truncated
SuggestedNameIsCleanUnlessTruncated ==
    /\ (FileRenameProposed
          /\ Len(SafeName(file_name, <<"x">>)) <= MAX_FILENAME_LENGTH - Len(file_ext))
         => OnlyAllowedChars(SuggestedStem)
    /\ (DirRenameProposed /\ Len(SafeName(dir_name, <<"x">>)) <= MAX_DIRNAME_LENGTH)
         => OnlyAllowedChars(report[1].res.path.suggested_dirname)

\* what is left of a name after dropping the disallowed characters, collapsing
\* runs of spaces and of dashes, and stripping spaces and dashes at both ends
KeptChars(name) ==
    SelectSeq(NormalizeNFKD(name), LAMBDA c : UnicodeCategory(c) # "M" /\ IsAllowedChar(c))
Sanitized(name) ==
    Strip(CollapseRuns(CollapseRuns(KeptChars(name), " "), "-"), {"-", " "})
AudioFile == <<"a", "u", "d", "i", "o", "f", "i", "l", "e">>
Folder == <<"f", "o", "l", "d", "e", "r">>

\* C25 - placeholder fallback: whenever a rename of the file or of its
\* directory is proposed, the suggested stem is not empty, and it is
\* 'audiofile' (files) or 'folder' (directories) when sanitizing the name
\* leaves nothing.
C25_PlaceholderFallback ==
    /\ FileRenameProposed
         => /\ SuggestedStem # <<>>
            /\ Sanitized(file_name) = <<>> => SuggestedStem = AudioFile
    /\ DirRenameProposed
         => /\ report[1].res.path.suggested_dirname # <<>>
            /\ Sanitized(dir_name) = <<>> => report[1].res.path.suggested_dirname = Folder

\* the placeholder is used when nothing but spaces is kept of the name
PlaceholderWhenBlank ==
    /\ FileRenameProposed
         => (Strip(KeptChars(file_name), {" "}) = <<>> <=> SuggestedStem = AudioFile)
    /\ DirRenameProposed
         => (Strip(KeptChars(dir_name), {" "}) = <<>>
               <=> report[1].res.path.suggested_dirname = Folder)

\* the characters a list of findings quotes under a text
ReportedChars(list, text) ==
    UNION {{list[i].detail[j] : j \in 1..Len(list[i].detail)} :
             i \in {k \in 1..Len(list) : list[k].text = text}}
\* a letter with an accent: it decomposes to a letter the sanitizer keeps and
\* a combining mark
Transliterable(c) ==
    /\ Len(NFKD(c)) = 2
    /\ IsAllowedChar(NFKD(c)[1])
    /\ UnicodeCategory(NFKD(c)[2]) = "M"
PathChecked == Validated /\ ~report[1].res.raised /\ report[1].path_validated

\* C26 - character classification: a character of the file stem or of the
\* directory name outside [0-9a-zA-Z\- ] is reported as accented (a warning)
\* only if it decomposes to a base letter and an accent; every other such
\* character, letters of other scripts included, is reported as special (an
\* issue).
C26_CharacterClassification ==
    PathChecked =>
        /\ \A i \in 1..Len(file_name) :
             ~IsAllowedChar(file_name[i]) =>
               IF Transliterable(file_name[i])
               THEN file_name[i] \in ReportedChars(report[1].res.warnings,
                                                   "Filename contains accented characters")
               ELSE /\ file_name[i] \in ReportedChars(report[1].res.issues,
                                                      "Filename contains special characters")
                    /\ file_name[i] \notin ReportedChars(report[1].res.warnings,
                                                         "Filename contains accented characters")
        /\ \A i \in 1..Len(dir_name) :
             ~IsAllowedChar(dir_name[i]) =>
               IF Transliterable(dir_name[i])
               THEN dir_name[i] \in ReportedChars(report[1].res.warnings,
                                                  "Directory name contains accented characters")
               ELSE /\ dir_name[i] \in ReportedChars(report[1].res.issues,
                                                     "Directory name contains special characters")
                    /\ dir_name[i] \notin ReportedChars(report[1].res.warnings,
                                                        "Directory name contains accented characters")

\* the code classifies by the Unicode category alone: every letter is
\* reported as accented, every other character as special
ClassifiedByLetterCategory ==
    PathChecked =>
        /\ \A i \in 1..Len(file_name) :
             ~IsAllowedChar(file_name[i]) =>
               IF UnicodeCategory(file_name[i]) = "L"
               THEN file_name[i] \in ReportedChars(report[1].res.warnings,
                                                   "Filename contains accented characters")
               ELSE file_name[i] \in ReportedChars(report[1].res.issues,
                                                   "Filename contains special characters")
        /\ \A i \in 1..Len(dir_name) :
             ~IsAllowedChar(dir_name[i]) =>
               IF UnicodeCategory(dir_name[i]) = "L"
               THEN dir_name[i] \in ReportedChars(report[1].res.warnings,
                                                  "Directory name contains accented characters")
               ELSE dir_name[i] \in ReportedChars(report[1].res.issues,
                                                  "Directory name contains special characters")

RenamedToSuggestion(op) ==
    /\ PathChecked
    /\ rename # <<>>
    /\ rename[1].op = op
    /\ rename[1].res.success
NoNameFindings(length_text, accented_text, special_text) ==
    /\ ~HasFinding(report[1].res.issues, length_text)
    /\ ~HasFinding(report[1].res.warnings, accented_text)
    /\ ~HasFinding(report[1].res.issues, special_text)

\* C27 - sanitization reaches a fixpoint in one step: after a file or a
\* directory was renamed to the name the path check suggested, a check of
\* the renamed entry reports no length issue, no accented-character warning
\* and no special-character issue for that name, and proposes no further
\* rename of it.
C27_SanitizationFixpoint ==
    /\ RenamedToSuggestion("rename_file")
         => /\ NoNameFindings("Filename exceeds 100 characters",
                              "Filename contains accented characters",
                              "Filename contains special characters")
            /\ report[1].res.path.suggested_filename = <<>>
    /\ RenamedToSuggestion("rename_directory")
         => /\ NoNameFindings("Directory name exceeds 100 characters",
                              "Directory name contains accented characters",
                              "Directory name contains special characters")
            /\ ~report[1].res.path.dir_can_rename

\* the same for the names whose sanitized form is neither empty nor truncated
FixpointUnlessEmptyOrTruncated ==
    /\ (RenamedToSuggestion("rename_file")
          /\ Sanitized(Splitext(rename[1].src).stem) # <<>>
          /\ Len(Sanitized(Splitext(rename[1].src).stem))
                <= MAX_FILENAME_LENGTH - Len(Splitext(rename[1].src).ext))
         => /\ NoNameFindings("Filename exceeds 100 characters",
                              "Filename contains accented characters",
                              "Filename contains special characters")
            /\ report[1].res.path.suggested_filename = <<>>
    /\ (RenamedToSuggestion("rename_directory")
          /\ Sanitized(rename[1].src) # <<>>
          /\ Len(Sanitized(rename[1].src)) <= MAX_DIRNAME_LENGTH)
         => /\ NoNameFindings("Directory name exceeds 100 characters",
                              "Directory name contains accented characters",
                              "Directory name contains special characters")
            /\ ~report[1].res.path.dir_can_rename

\* ------------------------------------------------------------------------
\* C12 - macOS resource files: for a file whose basename starts with "._" the
\* validator returns a report with 'macOS resource file detected' among its
\* issues, the integrity check classifies it Error, repairable by
\* delete_resource_file, and a successful repair with that method leaves
\* neither the file nor its .bak backup on disk.
C12_ResourceFiles ==
    /\ (Validated /\ fs[TARGET].exists)
         => /\ ~report[1].res.raised
            /\ HasFinding(report[1].res.issues, "macOS resource file detected")
    /\ ResourceFileCheckedAndRepaired

\* ------------------------------------------------------------------------
\* Properties of the renames (SpecRename)
\* ------------------------------------------------------------------------
Renamed == rename # <<>>

\* C16 - rename fails cleanly: when the destination name exists, rename_file
\* and rename_directory leave the directory as it was and return
\* success=false with new_path unset; when they return success, the source
\* name is gone and new_path is the destination name, which now holds the
\* entry that was at the source.
C16_RenameFailsCleanly ==
    Renamed =>
        /\ tree = rename[1].res.tree
        /\ PathExists(rename[1].before, rename[1].new)
             => /\ tree = rename[1].before
                /\ ~rename[1].res.success
                /\ rename[1].res.new_path = <<>>
        /\ rename[1].res.success
             => /\ rename[1].src \notin DOMAIN tree
                /\ rename[1].res.new_path = <<rename[1].new>>
                /\ rename[1].new \in DOMAIN tree
                /\ tree[rename[1].new].kind = rename[1].before[rename[1].src].kind
                /\ tree[rename[1].new].tags = rename[1].before[rename[1].src].tags
                /\ \A n \in DOMAIN rename[1].before \ {rename[1].src} :
                     n \in DOMAIN tree /\ tree[n] = rename[1].before[n]

\* a rename_file of one file onto the name of another file, which os.rename
\* alone would have replaced
C16_Witness ==
    /\ Renamed
    /\ rename[1].op = "rename_file"
    /\ rename[1].src # rename[1].new
    /\ rename[1].src \in DOMAIN rename[1].before
    /\ rename[1].new \in DOMAIN rename[1].before
    /\ rename[1].before[rename[1].src].kind = "file"
    /\ rename[1].before[rename[1].new].kind = "file"
    /\ ~rename[1].res.success

\* ------------------------------------------------------------------------
\* Properties of the tag store and the auto-fix (SpecAutoFix)
\* ------------------------------------------------------------------------
Fixed == autofix # <<>>
\* the file the last auto-fix was asked to fix, as it was before
FixedFile == autofix[1].before[autofix[1].full_path]
FixedExt == Lower(Splitext(autofix[1].full_path).ext)
\* the auto-fix found its file, and its report was made of the file as it was
FixRan ==
    /\ Fixed
    /\ autofix[1].full_path \in DOMAIN autofix[1].before
    /\ autofix[1].metadata = AsMetadata(read_metadata(FixedFile, FixedExt))
\* the last check looked at the file the auto-fix left
Rechecked ==
    /\ Fixed
    /\ report # <<>>
    /\ report[1].of_tree = tree
    /\ report[1].full_path = autofix[1].out.full_path
\* the text of a tag of the file the auto-fix left
TagLeft(field) == tree[autofix[1].out.full_path].tags[field]

TagIssueTexts ==
    {"Missing title tag", "Missing artist tag", "Title tag exceeds 250 characters",
     "Artist tag exceeds 250 characters", "Album tag exceeds 250 characters"}
TagIssues(results) ==
    {results.issues[i].text : i \in 1..Len(results.issues)} \cap TagIssueTexts
UnderscoresToSpaces(s) == [i \in 1..Len(s) |-> IF s[i] = "_" THEN " " ELSE s[i]]

\* an MP3 with a tag block, writable, not a resource file, whose title is
\* blank and whose artist is set
MissingTitleCase ==
    /\ FixRan
    /\ FixedExt = EXT_MP3
    /\ ~IsResourceName(autofix[1].full_path)
    /\ ContainerParses(FixedFile, EXT_MP3)
    /\ FixedFile.f.w
    /\ IsBlank(autofix[1].metadata.title)
    /\ ~IsBlank(autofix[1].metadata.artist)

\* C13 - missing title: for an MP3 whose title is blank and whose artist is
\* set, the report holds "Missing title tag" and no other tag issue; the
\* auto-fix writes as title the stem of the filename with its underscores
\* replaced by spaces; a check of the file afterwards reports no missing title.
C13_MissingTitle ==
    MissingTitleCase =>
        /\ TagIssues(autofix[1].results) = {"Missing title tag"}
        /\ autofix[1].out.status = "fixed"
        /\ autofix[1].out.full_path \in DOMAIN tree
        /\ TagLeft("title") = UnderscoresToSpaces(Splitext(autofix[1].full_path).stem)
        /\ Rechecked => ~HasFinding(report[1].res.issues, "Missing title tag")

\* what the auto-fix does in that case: the title is the stem of the name the
\* file has after the rename step, unchanged
MissingTitleSetToStem ==
    MissingTitleCase =>
        /\ TagIssues(autofix[1].results) = {"Missing title tag"}
        /\ autofix[1].out.status = "fixed"
        /\ autofix[1].out.full_path \in DOMAIN tree
        /\ TagLeft("title") = Splitext(autofix[1].out.full_path).stem
        /\ Rechecked => ~HasFinding(report[1].res.issues, "Missing title tag")

TagFields == {"title", "artist", "album"}
ExceedsText(field) ==
    CASE field = "title"  -> "Title tag exceeds 250 characters"
      [] field = "artist" -> "Artist tag exceeds 250 characters"
      [] field = "album"  -> "Album tag exceeds 250 characters"

\* a report holds the oversize issue of a field exactly when the field is
\* longer than 250 characters
ExceedsReported ==
    report # <<>> =>
        \A field \in TagFields :
            HasFinding(report[1].res.issues, ExceedsText(field))
                <=> report[1].metadata[field].len > 250

\* the auto-fix ran on a file whose report holds the oversize issue of field
FlaggedFix(field) == FixRan /\ MentionsIssue(autofix[1].results, ExceedsText(field))

\* field of the file the auto-fix left is the first 250 characters of what it
\* was, and a check afterwards does not report it
TrimmedTo250(field) ==
    /\ autofix[1].out.full_path \in DOMAIN tree
    /\ Len(TagLeft(field)) = 250
    /\ TagLeft(field) = SubSeq(FixedFile.tags[field], 1, 250)
    /\ Rechecked => ~HasFinding(report[1].res.issues, ExceedsText(field))

C18_ReadErrorsAreMarked ==
    (FixRan /\ FixedExt \in {EXT_FLAC, EXT_MP3, EXT_WAV}
       /\ ~ContainerParses(FixedFile, FixedExt))
        => /\ "error" \in read_metadata(FixedFile, FixedExt).keys
           /\ autofix[1].out.status = "skipped_read_error"

\* ------------------------------------------------------------------------
\* Properties of the batch check and its report (SpecBatch)
\* ------------------------------------------------------------------------
Shown == listbox # <<>>
ShownReports == 1..Len(listbox)
IssuesOf(i) == call[1].report_data[i].results.issues
WarningsOf(i) == call[1].report_data[i].results.warnings
\* the total is what it would be had the file not been checked
NotCounted(i) ==
    check_compatibility(PickSeq(call[1].files_to_check, ShownReports \ {i}), 0,
                        call[1].integrity_check, call[1].path_validation).total_issues
        = call[1].total_issues
ReportedCompatible(i) ==
    /\ listbox[i].mark = "ok"
    /\ checked_files_state[call[1].report_data[i].full_path].status # "problem"
    /\ NotCounted(i)

C9_ProgressCallback ==
    (call # <<>> /\ call[1].with_callback)
        => LET n == Len(call[1].files_to_check)
               plain == check_compatibility(call[1].files_to_check, 0,
                                            call[1].integrity_check,
                                            call[1].path_validation)
           IN  /\ ~call[1].raised
               /\ call[1].callbacks =
                     [i \in 1..n |-> <<i, n, Basename(call[1].files_to_check[i])>>]
               /\ call[1].report_data = plain.report_data
               /\ call[1].total_issues = plain.total_issues

\* ------------------------------------------------------------------------
\* Properties of the auto-fix of a batch (SpecBatchFix)
\* ------------------------------------------------------------------------
\* the batch has reached its summary: every report and directory is processed
BatchSummed == BatchRunning /\ autofix[1].pc = "summary"
\* the directories the batch collected: those renamed and those still queued
DirectoriesQueued(b) == b.dir_renamed_count + Len(b.dirs_to_rename)

\* C30 - summary counts are per file: at the end of a batch fixed_count plus
\* skipped_count is at most the number of files of the batch plus the number
\* of directories queued for renaming.
C30_CountsPerFile ==
    BatchSummed =>
        autofix[1].fixed_count + autofix[1].skipped_count
            <= Len(autofix[1].reports) + DirectoriesQueued(autofix[1])

\* what does hold: a file is counted at most twice, once for its rename and
\* once for its tags, and a directory once
CountsAtMostTwicePerFile ==
    BatchSummed =>
        autofix[1].fixed_count + autofix[1].skipped_count
            <= 2 * Len(autofix[1].reports) + DirectoriesQueued(autofix[1])

\* the pass of the file loop that ran last, while the loop is running
FilePassed ==
    BatchRunning /\ autofix[1].pc = "files" /\ autofix[1].log # <<>>
LastPass == autofix[1].log[Len(autofix[1].log)]
\* the tracked paths that the last pass marked fixed, or gave the status 'ok'
NewlyMarked ==
    {k \in DOMAIN checked_files_state :
        \/ k \notin DOMAIN LastPass.before.state
        \/ (checked_files_state[k].fixed /\ ~LastPass.before.state[k].fixed)
        \/ (checked_files_state[k].status = "ok" /\ LastPass.before.state[k].status # "ok")}

\* C28 - the status of a file reflects its own report: a pass of the auto-fix
\* marks as fixed, or as 'ok', no tracked file but the one it worked on, and
\* that one only when it renamed it or wrote its tags (or deleted it).
C28_OwnStatus ==
    FilePassed =>
        \A k \in NewlyMarked :
            /\ k = LastPass.new_path
            /\ LastPass.renamed \/ LastPass.status = "fixed"

\* what does hold: the file marked has the basename the report was made for,
\* or is the file the pass renamed
MarkedByBasename ==
    FilePassed =>
        \A k \in NewlyMarked :
            \/ (k = LastPass.new_path /\ LastPass.renamed)
            \/ (PathBasename(k) = PathBasename(LastPass.path) /\ LastPass.status = "fixed")

\* the renames of the batch that succeeded, by their place in its log
RenamesDone ==
    IF BatchRunning
    THEN {i \in 1..Len(autofix[1].log) : autofix[1].log[i].renamed}
    ELSE {}
\* the keys of e.before are the keys of e.after, each at MovedPath, and no
\* two keys fell together
KeysFollow(e) ==
    /\ DOMAIN e.after.state =
           {IF e.kind = "file"
            THEN (IF k = e.path THEN e.new_path ELSE k)
            ELSE MovedPath(k, e.path, e.new_path) : k \in DOMAIN e.before.state}
    /\ Cardinality(DOMAIN e.after.state) = Cardinality(DOMAIN e.before.state)
    /\ Len(e.after.keys) = Len(e.before.keys)
\* where the key k of e.before is in e.after
KeyAfter(e, k) ==
    IF e.kind = "file" THEN (IF k = e.path THEN e.new_path ELSE k)
    ELSE MovedPath(k, e.path, e.new_path)

\* C22 as stated - after each successful rename of the batch every tracked
\* key that named the renamed file, or a file under the renamed directory, is
\* replaced by the new path with its state record kept; the other keys and
\* the number of keys are unchanged.
C22_StateRecordKept ==
    \A i \in RenamesDone :
        LET e == autofix[1].log[i]
        IN  /\ KeysFollow(e)
            /\ \A k \in DOMAIN e.before.state :
                 e.after.state[KeyAfter(e, k)] = e.before.state[k]

\* C22, amended - the same, but the record of a renamed file is marked fixed
C22_TrackedPathsFollowRenames ==
    \A i \in RenamesDone :
        LET e == autofix[1].log[i]
        IN  /\ KeysFollow(e)
            /\ \A k \in DOMAIN e.before.state :
                 e.after.state[KeyAfter(e, k)] =
                     IF e.kind = "file" /\ k = e.path
                     THEN [e.before.state[k] EXCEPT !.fixed = TRUE]
                     ELSE e.before.state[k]

\* a batch that renamed a tracked file, then its directory and the directory
\* above it, with a tracked file in each
C22_Witness ==
    /\ BatchRunning
    /\ \E i, j, k \in RenamesDone :
         /\ i < j /\ j < k
         /\ autofix[1].log[i].kind = "file"
         /\ autofix[1].log[i].path \in DOMAIN autofix[1].log[i].before.state
         /\ autofix[1].log[j].kind = "dir"
         /\ autofix[1].log[k].kind = "dir"
         /\ IsUnder(autofix[1].log[j].path, autofix[1].log[k].path)
         /\ \E p \in DOMAIN autofix[1].log[k].before.state :
              IsUnder(p, autofix[1].log[k].path) /\ Dirname(p) # autofix[1].log[k].path

\* the operations of the running batch, in the order they were issued; a
\* pass that found no file at its path issued none
BatchLog == IF BatchRunning THEN autofix[1].log ELSE <<>>
Issued(i) == BatchLog[i].status # "skipped_not_found"
\* the path is the one a rename moved away, or lies under it
Invalidated(path, e) == e.renamed /\ (path = e.path \/ IsUnder(path, e.path))

WritingOn(path) == {w \in Workers : autofix[w].pc = "write" /\ PassPath(w) = path}

\* at most one write is in progress on any path
OneWriterPerPath ==
    \A w \in Workers : autofix[w].pc = "write" => WritingOn(PassPath(w)) = {w}
\* at most one batch is in progress
OneBatchAtATime == Cardinality({w \in Workers : Alive(w)}) <= 1

\* C23 - no concurrent repair of one path: at any moment at most one write
\* is in progress on a path, and no second batch runs while one is in
\* progress.
C23_NoConcurrentRepair == OneWriterPerPath /\ OneBatchAtATime

\* what does hold: while its progress window is open a batch is the only one
\* that can be started
OneOpenWindow == Cardinality({w \in Workers : autofix[w].window = "open"}) <= 1

====
